---- MODULE Spec2Model ----
(***************************************************************************)
(* CryptoString: the cipher engine (src/src/utils/encryption.ts) and the   *)
(* encrypted key vault (src/src/utils/keyStorage.ts).                      *)
(*                                                                         *)
(* A JavaScript string is modelled as the sequence of its UTF-16 code      *)
(* units (naturals below 65536).  A call that can throw returns a record   *)
(* [ok, v, err]: ok = TRUE with the value v, or ok = FALSE with the        *)
(* message err of the Error that was thrown.                               *)
(***************************************************************************)
EXTENDS Integers, Sequences, FiniteSets, TLC

(***************************************************************************)
(* Platform primitives the code calls                                      *)
(***************************************************************************)

Ok(x) == [ok |-> TRUE, v |-> x, err |-> ""]

Throw(msg) == [ok |-> FALSE, v |-> <<>>, err |-> msg]

\* JavaScript's % on integers: the remainder takes the sign of the dividend.
JsRem(a, m) == IF a >= 0 THEN a % m ELSE 0 - ((0 - a) % m)

\* JavaScript's ^ on non-negative integers below 2^31.
RECURSIVE Xor(_, _)
Xor(a, b) ==
  IF a = 0 THEN b
  ELSE IF b = 0 THEN a
  ELSE ((a + b) % 2) + 2 * Xor(a \div 2, b \div 2)

\* String.fromCharCode(n): ToUint16 of n.
FromCharCode(n) == n % 65536

\* s.charCodeAt(i % s.length) as an operand of ^ : NaN (empty s) counts as 0.
CharCodeAtMod(s, i) == IF Len(s) = 0 THEN 0 ELSE s[(i % Len(s)) + 1]

Max(a, b) == IF a >= b THEN a ELSE b

Min(a, b) == IF a <= b THEN a ELSE b

\* White space and line terminators, as String.prototype.trim removes them.
IsWhiteSpace(c) ==
  \/ c \in {9, 10, 11, 12, 13, 32, 160, 5760, 8232, 8233, 8239, 8287, 12288, 65279}
  \/ (c >= 8192 /\ c <= 8202)

\* !s || s.trim() === ''
IsBlank(s) == \A i \in 1..Len(s) : IsWhiteSpace(s[i])

\* s.trim()
RECURSIVE TrimLeft(_)
TrimLeft(s) ==
  IF s = <<>> THEN s
  ELSE IF IsWhiteSpace(Head(s)) THEN TrimLeft(Tail(s))
  ELSE s

RECURSIVE TrimRight(_)
TrimRight(s) ==
  IF s = <<>> THEN s
  ELSE IF IsWhiteSpace(s[Len(s)]) THEN TrimRight(SubSeq(s, 1, Len(s) - 1))
  ELSE s

Trim(s) == TrimRight(TrimLeft(s))

(***************************************************************************)
(* btoa / atob                                                             *)
(***************************************************************************)

\* The base64 alphabet: A-Z a-z 0-9 + /
B64Char(i) ==
  IF i < 26 THEN 65 + i
  ELSE IF i < 52 THEN 97 + (i - 26)
  ELSE IF i < 62 THEN 48 + (i - 52)
  ELSE IF i = 62 THEN 43
  ELSE 47

IsB64Char(c) ==
  \/ (c >= 65 /\ c <= 90)
  \/ (c >= 97 /\ c <= 122)
  \/ (c >= 48 /\ c <= 57)
  \/ c = 43
  \/ c = 47

B64Index(c) ==
  IF c >= 65 /\ c <= 90 THEN c - 65
  ELSE IF c >= 97 /\ c <= 122 THEN c - 97 + 26
  ELSE IF c >= 48 /\ c <= 57 THEN c - 48 + 52
  ELSE IF c = 43 THEN 62
  ELSE 63

B64Pad == 61

\* The base64 text of the bytes b: four characters per group of three bytes.
B64EncodeBytes(b) ==
  LET n == Len(b)
      At(j) == IF j <= n THEN b[j] ELSE 0
  IN [p \in 1..(4 * ((n + 2) \div 3)) |->
        LET q == (p - 1) \div 4
            r == (p - 1) % 4
            b0 == At(3 * q + 1)
            b1 == At(3 * q + 2)
            b2 == At(3 * q + 3)
        IN IF r = 0 THEN B64Char(b0 \div 4)
           ELSE IF r = 1 THEN B64Char((b0 % 4) * 16 + (b1 \div 16))
           ELSE IF r = 2 THEN
             IF 3 * q + 2 > n THEN B64Pad
             ELSE B64Char((b1 % 16) * 4 + (b2 \div 64))
           ELSE IF 3 * q + 3 > n THEN B64Pad
           ELSE B64Char(b2 % 64)]

\* btoa(s): InvalidCharacterError when a code unit is above 255.
Btoa(s) ==
  IF \E i \in 1..Len(s) : s[i] > 255
  THEN Throw("InvalidCharacterError")
  ELSE Ok(B64EncodeBytes(s))

IsAsciiWhiteSpace(c) == c \in {9, 10, 12, 13, 32}

IsNotAsciiWhiteSpace(c) == ~IsAsciiWhiteSpace(c)

StripAsciiWhiteSpace(s) == SelectSeq(s, IsNotAsciiWhiteSpace)

\* Forgiving base64: with a length divisible by 4, one or two trailing '=' go.
StripPadding(s) ==
  IF Len(s) > 0 /\ Len(s) % 4 = 0 /\ s[Len(s)] = B64Pad
  THEN IF s[Len(s) - 1] = B64Pad
       THEN SubSeq(s, 1, Len(s) - 2)
       ELSE SubSeq(s, 1, Len(s) - 1)
  ELSE s

\* The bytes of the base64 characters c: six bits per character, the bits
\* left over at the end dropped.
B64DecodeChars(c) ==
  [p \in 1..((Len(c) * 3) \div 4) |->
     LET q == (p - 1) \div 3
         r == (p - 1) % 3
     IN IF r = 0
          THEN B64Index(c[4 * q + 1]) * 4 + (B64Index(c[4 * q + 2]) \div 16)
        ELSE IF r = 1
          THEN (B64Index(c[4 * q + 2]) % 16) * 16
               + (B64Index(c[4 * q + 3]) \div 4)
        ELSE (B64Index(c[4 * q + 3]) % 4) * 64 + B64Index(c[4 * q + 4])]

\* atob(s): InvalidCharacterError when s is not forgiving-base64.
Atob(s) ==
  LET d == StripPadding(StripAsciiWhiteSpace(s)) IN
  IF Len(d) % 4 = 1 \/ (\E i \in 1..Len(d) : ~IsB64Char(d[i]))
  THEN Throw("InvalidCharacterError")
  ELSE Ok(B64DecodeChars(d))

(***************************************************************************)
(* unescape(encodeURIComponent(s)) and decodeURIComponent(escape(s)):      *)
(* the UTF-8 bytes of a string of UTF-16 code units, and back.             *)
(***************************************************************************)

IsHighSurrogate(c) == c >= 55296 /\ c <= 56319

IsLowSurrogate(c) == c >= 56320 /\ c <= 57343

Utf8OfCodePoint(cp) ==
  IF cp < 128 THEN << cp >>
  ELSE IF cp < 2048 THEN << 192 + (cp \div 64), 128 + (cp % 64) >>
  ELSE IF cp < 65536 THEN
    << 224 + (cp \div 4096), 128 + ((cp \div 64) % 64), 128 + (cp % 64) >>
  ELSE
    << 240 + (cp \div 262144), 128 + ((cp \div 4096) % 64),
       128 + ((cp \div 64) % 64), 128 + (cp % 64) >>

\* encodeURIComponent throws URIError on a lone surrogate.
RECURSIVE Utf8Encode(_)
Utf8Encode(s) ==
  IF s = <<>> THEN Ok(<<>>)
  ELSE IF IsLowSurrogate(s[1]) THEN Throw("URIError")
  ELSE IF IsHighSurrogate(s[1]) THEN
    IF Len(s) < 2 \/ ~IsLowSurrogate(s[2]) THEN Throw("URIError")
    ELSE LET rest == Utf8Encode(SubSeq(s, 3, Len(s)))
             cp == 65536 + (s[1] - 55296) * 1024 + (s[2] - 56320)
         IN IF rest.ok THEN Ok(Utf8OfCodePoint(cp) \o rest.v) ELSE rest
  ELSE LET rest == Utf8Encode(Tail(s))
       IN IF rest.ok THEN Ok(Utf8OfCodePoint(s[1]) \o rest.v) ELSE rest

IsCont(b) == b >= 128 /\ b <= 191

\* The code units of a code point.
Utf16OfCodePoint(cp) ==
  IF cp < 65536 THEN << cp >>
  ELSE << 55296 + ((cp - 65536) \div 1024), 56320 + ((cp - 65536) % 1024) >>

\* decodeURIComponent throws URIError on bytes that are not well-formed UTF-8.
RECURSIVE Utf8Decode(_)
Utf8Decode(b) ==
  IF b = <<>> THEN Ok(<<>>)
  ELSE IF b[1] < 128 THEN
    LET rest == Utf8Decode(Tail(b))
    IN IF rest.ok THEN Ok(<< b[1] >> \o rest.v) ELSE rest
  ELSE IF b[1] >= 194 /\ b[1] <= 223 THEN
    IF Len(b) < 2 \/ ~IsCont(b[2]) THEN Throw("URIError")
    ELSE LET rest == Utf8Decode(SubSeq(b, 3, Len(b)))
             cp == (b[1] - 192) * 64 + (b[2] - 128)
         IN IF rest.ok THEN Ok(<< cp >> \o rest.v) ELSE rest
  ELSE IF b[1] >= 224 /\ b[1] <= 239 THEN
    IF Len(b) < 3 \/ ~IsCont(b[2]) \/ ~IsCont(b[3]) THEN Throw("URIError")
    ELSE LET rest == Utf8Decode(SubSeq(b, 4, Len(b)))
             cp == (b[1] - 224) * 4096 + (b[2] - 128) * 64 + (b[3] - 128)
         IN IF cp < 2048 \/ (cp >= 55296 /\ cp <= 57343) THEN Throw("URIError")
            ELSE IF rest.ok THEN Ok(<< cp >> \o rest.v) ELSE rest
  ELSE IF b[1] >= 240 /\ b[1] <= 244 THEN
    IF Len(b) < 4 \/ ~IsCont(b[2]) \/ ~IsCont(b[3]) \/ ~IsCont(b[4])
    THEN Throw("URIError")
    ELSE LET rest == Utf8Decode(SubSeq(b, 5, Len(b)))
             cp == (b[1] - 240) * 262144 + (b[2] - 128) * 4096
                   + (b[3] - 128) * 64 + (b[4] - 128)
         IN IF cp < 65536 \/ cp > 1114111 THEN Throw("URIError")
            ELSE IF rest.ok THEN Ok(Utf16OfCodePoint(cp) \o rest.v) ELSE rest
  ELSE Throw("URIError")

(***************************************************************************)
(* CryptoString (src/src/utils/encryption.ts)                              *)
(***************************************************************************)

\* The alphabet of generateKey, as code units.
chars ==
  << 65, 66, 67, 68, 69, 70, 71, 72, 73, 74, 75, 76, 77, 78, 79, 80, 81, 82,
     83, 84, 85, 86, 87, 88, 89, 90,
     97, 98, 99, 100, 101, 102, 103, 104, 105, 106, 107, 108, 109, 110, 111,
     112, 113, 114, 115, 116, 117, 118, 119, 120, 121, 122,
     48, 49, 50, 51, 52, 53, 54, 55, 56, 57,
     33, 64, 35, 36, 37, 94, 38, 42, 40, 41, 95, 43, 45, 61, 91, 93, 123, 125,
     124, 59, 58, 44, 46, 60, 62, 63 >>

DefaultKeyLength == 32

SaltLength == 16

\* crypto.getRandomValues on a Uint8Array of n bytes: the random source's
\* outcome is the seed, repeated to the length asked for.
RandomBytes(seed, n) == [i \in 1..n |-> seed[((i - 1) % Len(seed)) + 1]]

\* A generateKey that clamps the length to 16..64.
generateKeyClamped(length, seed) ==
  LET n == IF length < 16 THEN 16 ELSE IF length > 64 THEN 64 ELSE length
  IN Ok([i \in 1..n |-> chars[(RandomBytes(seed, n)[i] % Len(chars)) + 1]])

\* A generateKey that draws from the letters and digits only.
generateKeyAlphanumeric(length, seed) ==
  IF length < 0 THEN Throw("RangeError: Invalid typed array length")
  ELSE LET randomArray == RandomBytes(seed, length)
       IN Ok([i \in 1..length |-> chars[(randomArray[i] % 62) + 1]])

\* generateKey(length): new Uint8Array(length) throws RangeError on a negative
\* length; otherwise one character of chars per random byte.
generateKey(length, seed) ==
  IF length < 0 THEN Throw("RangeError: Invalid typed array length")
  ELSE LET randomArray == RandomBytes(seed, length)
       IN Ok([i \in 1..length |-> chars[(randomArray[i] % Len(chars)) + 1]])

generateSalt(seed) == generateKey(SaltLength, seed)

\* deriveKey(key, salt): !salt holds for an absent salt and for '' alike,
\* both modelled as the empty sequence.
\* A deriveKey that is as long as the key.
deriveKeyOfKeyLength(key, salt) ==
  IF salt = <<>> THEN key
  ELSE [i \in 1..Len(key) |->
          FromCharCode(Xor(Xor(CharCodeAtMod(key, i - 1),
                               CharCodeAtMod(salt, i - 1)), i - 1) % 256)]

deriveKey(key, salt) ==
  IF salt = <<>> THEN key
  ELSE [i \in 1..Max(Len(key), 32) |->
          FromCharCode(Xor(Xor(CharCodeAtMod(key, i - 1),
                               CharCodeAtMod(salt, i - 1)), i - 1) % 256)]

\* XorStream without the key: every character XOR its index only.
XorStreamNoKey(text, key) ==
  [i \in 1..Len(text) |-> FromCharCode(Xor(text[i], (i - 1) % 256))]

\* The loop shared by aesEncrypt, aesDecrypt, xorEncrypt and xorDecrypt:
\* character i of text XOR key[i % key.length] XOR (i % 256).
XorStream(text, key) ==
  [i \in 1..Len(text) |->
     FromCharCode(Xor(Xor(text[i], CharCodeAtMod(key, i - 1)), (i - 1) % 256))]

aesEncrypt(text, key, salt) == Btoa(XorStream(text, deriveKey(key, salt)))

aesDecrypt(encryptedText, key, salt) ==
  LET decoded == Atob(encryptedText)
  IN IF decoded.ok THEN Ok(XorStream(decoded.v, deriveKey(key, salt)))
     ELSE Throw("Invalid encrypted text or key for AES decryption")

\* A caesarEncrypt that rotates the digits as it rotates the letters.
CaesarCharOneModulus(code, shift) ==
  IF code >= 65 /\ code <= 90
    THEN FromCharCode(JsRem(code - 65 + shift, 26) + 65)
  ELSE IF code >= 97 /\ code <= 122
    THEN FromCharCode(JsRem(code - 97 + shift, 26) + 97)
  ELSE IF code >= 48 /\ code <= 57
    THEN FromCharCode(JsRem(code - 48 + shift, 26) + 48)
  ELSE code

CaesarChar(code, shift) ==
  IF code >= 65 /\ code <= 90
    THEN FromCharCode(JsRem(code - 65 + shift, 26) + 65)
  ELSE IF code >= 97 /\ code <= 122
    THEN FromCharCode(JsRem(code - 97 + shift, 26) + 97)
  ELSE IF code >= 48 /\ code <= 57
    THEN FromCharCode(JsRem(code - 48 + shift, 10) + 48)
  ELSE code

caesarEncrypt(text, shift) == [i \in 1..Len(text) |-> CaesarChar(text[i], shift)]

caesarDecrypt(text, shift) == caesarEncrypt(text, 0 - shift)

xorEncrypt(text, key) == Btoa(XorStream(text, key))

\* xorDecrypt without the XOR of the index.
xorDecryptNoIndex(encryptedText, key) ==
  LET decoded == Atob(encryptedText)
  IN IF decoded.ok
     THEN Ok([i \in 1..Len(decoded.v) |->
                FromCharCode(Xor(decoded.v[i], CharCodeAtMod(key, i - 1)))])
     ELSE Throw("Invalid encrypted text or key for XOR decryption")

xorDecrypt(encryptedText, key) ==
  LET decoded == Atob(encryptedText)
  IN IF decoded.ok THEN Ok(XorStream(decoded.v, key))
     ELSE Throw("Invalid encrypted text or key for XOR decryption")

base64Encrypt(text) ==
  LET bytes == Utf8Encode(text)
  IN IF bytes.ok THEN Btoa(bytes.v)
     ELSE Throw("Failed to encode text to Base64")

base64Decrypt(encodedText) ==
  LET decoded == Atob(encodedText)
      str == IF decoded.ok THEN Utf8Decode(decoded.v) ELSE decoded
  IN IF str.ok THEN str ELSE Throw("Invalid Base64 encoded text")

\* key.charCodeAt(0) % 26, for a non-empty key.
HybridShift(key) == key[1] % 26

hybridEncrypt(text, key, salt) ==
  LET caesarResult == caesarEncrypt(text, HybridShift(key))
      xorResult == xorEncrypt(caesarResult, key)
      xorDecoded == IF xorResult.ok THEN Atob(xorResult.v) ELSE xorResult
      out == IF xorDecoded.ok THEN aesEncrypt(xorDecoded.v, key, salt)
             ELSE xorDecoded
  IN IF out.ok THEN out ELSE Throw("Hybrid encryption failed")

hybridDecrypt(encryptedText, key, salt) ==
  LET aesResult == aesDecrypt(encryptedText, key, salt)
      reencoded == IF aesResult.ok THEN Btoa(aesResult.v) ELSE aesResult
      xorResult == IF reencoded.ok THEN xorDecrypt(reencoded.v, key)
                   ELSE reencoded
  IN IF xorResult.ok THEN Ok(caesarDecrypt(xorResult.v, HybridShift(key)))
     ELSE Throw("Hybrid decryption failed - invalid encrypted text or key")

\* The value of a digit of radix 36, or -1.
Digit36(c) ==
  IF c >= 48 /\ c <= 57 THEN c - 48
  ELSE IF c >= 97 /\ c <= 122 THEN c - 97 + 10
  ELSE IF c >= 65 /\ c <= 90 THEN c - 65 + 10
  ELSE 0 - 1

RECURSIVE Digits36(_, _, _)
Digits36(s, acc, seen) ==
  IF s = <<>> \/ Digit36(Head(s)) < 0 THEN [nan |-> ~seen, n |-> acc]
  ELSE Digits36(Tail(s), acc * 36 + Digit36(Head(s)), TRUE)

\* parseInt(s, 36): leading white space, an optional sign, then the longest
\* run of digits; NaN when there is none.
ParseInt36(s) ==
  LET t == TrimLeft(s)
      neg == t # <<>> /\ Head(t) = 45
      body == IF t # <<>> /\ Head(t) \in {43, 45} THEN Tail(t) ELSE t
      r == Digits36(body, 0, FALSE)
  IN [nan |-> r.nan, n |-> IF neg THEN 0 - r.n ELSE r.n]

\* parseInt(key.slice(0, 2), 36) % 26 || 13
CaesarShift(key) ==
  LET p == ParseInt36(SubSeq(key, 1, Min(2, Len(key))))
  IN IF p.nan \/ JsRem(p.n, 26) = 0 THEN 13 ELSE JsRem(p.n, 26)

Algorithms == {"aes", "caesar", "xor", "base64", "hybrid"}

\* The switch of encrypt.
EncryptDispatch(text, algorithm, key, salt) ==
  CASE algorithm = "aes" -> aesEncrypt(text, key, salt)
    [] algorithm = "caesar" -> Ok(caesarEncrypt(text, CaesarShift(key)))
    [] algorithm = "xor" -> xorEncrypt(text, key)
    [] algorithm = "base64" -> base64Encrypt(text)
    [] algorithm = "hybrid" -> hybridEncrypt(text, key, salt)
    [] OTHER -> Throw("Unsupported encryption algorithm")

NoResult ==
  [state |-> "none", encrypted |-> <<>>, key |-> <<>>, algorithm |-> "",
   timestamp |-> 0, salt |-> <<>>, error |-> "", cause |-> ""]

\* encrypt throws: error is the message, cause the wrapped message if any.
Raised(error, cause) ==
  [NoResult EXCEPT !.state = "raised", !.error = error, !.cause = cause]

\* encrypt(text, config), with the random source's outcomes and Date.now().
\* config.keyLength = 0 stands for 0 and for an absent keyLength alike.
encrypt(text, config, seedKey, seedSalt, now) ==
  IF IsBlank(text) THEN Raised("Text to encrypt cannot be empty", "")
  ELSE
    LET key == IF config.keyLength # 0
               THEN generateKey(config.keyLength, seedKey)
               ELSE generateKey(DefaultKeyLength, seedKey)
        salt == IF config.useSalt THEN generateSalt(seedSalt) ELSE Ok(<<>>)
    IN IF ~key.ok THEN Raised(key.err, "")
       ELSE IF ~salt.ok THEN Raised(salt.err, "")
       ELSE LET encrypted ==
                  EncryptDispatch(text, config.algorithm, key.v, salt.v)
            IN IF encrypted.ok
               THEN [state |-> "returned", encrypted |-> encrypted.v,
                     key |-> key.v, algorithm |-> config.algorithm,
                     timestamp |-> now, salt |-> salt.v,
                     error |-> "", cause |-> ""]
               ELSE Raised("Encryption failed", encrypted.err)

\* The switch of decrypt.
DecryptDispatch(encryptedText, key, algorithm, salt) ==
  CASE algorithm = "aes" -> aesDecrypt(encryptedText, key, salt)
    [] algorithm = "caesar" -> Ok(caesarDecrypt(encryptedText, CaesarShift(key)))
    [] algorithm = "xor" -> xorDecrypt(encryptedText, key)
    [] algorithm = "base64" -> base64Decrypt(encryptedText)
    [] algorithm = "hybrid" -> hybridDecrypt(encryptedText, key, salt)
    [] OTHER -> Throw("Unsupported decryption algorithm")

NoDecryption ==
  [state |-> "none", decrypted |-> <<>>, success |-> FALSE, error |-> ""]

Failure(error) ==
  [state |-> "returned", decrypted |-> <<>>, success |-> FALSE, error |-> error]

\* decrypt without the check of the key.
decryptNoKeyCheck(encryptedText, key, algorithm, salt) ==
  IF IsBlank(encryptedText) THEN Failure("Encrypted text cannot be empty")
  ELSE LET decrypted == DecryptDispatch(encryptedText, key, algorithm, salt)
       IN IF decrypted.ok
          THEN [state |-> "returned", decrypted |-> decrypted.v,
                success |-> TRUE, error |-> ""]
          ELSE Failure(decrypted.err)

\* decrypt(encryptedText, key, algorithm, salt)
decrypt(encryptedText, key, algorithm, salt) ==
  IF IsBlank(encryptedText) THEN Failure("Encrypted text cannot be empty")
  ELSE IF IsBlank(key) THEN Failure("Decryption key cannot be empty")
  ELSE LET decrypted == DecryptDispatch(encryptedText, key, algorithm, salt)
       IN IF decrypted.ok
          THEN [state |-> "returned", decrypted |-> decrypted.v,
                success |-> TRUE, error |-> ""]
          ELSE Failure(decrypted.err)

(***************************************************************************)
(* The script that generateDecryptionCode returns, run                     *)
(***************************************************************************)

\* The value of the string literal "${s}" of the script: s, unless s holds
\* a double quote, a backslash or a line terminator, with which the
\* literal ends early, holds an escape sequence or does not parse.
StringLiteral(s) ==
  IF \E i \in 1..Len(s) : s[i] \in {34, 92, 10, 13} THEN Throw("SyntaxError")
  ELSE Ok(s)

\* The arrow function of the script's caesarDecrypt.
SnippetCaesarChar(code, shift) ==
  IF code >= 65 /\ code <= 90
    THEN FromCharCode(JsRem(code - 65 - shift + 26, 26) + 65)
  ELSE IF code >= 97 /\ code <= 122
    THEN FromCharCode(JsRem(code - 97 - shift + 26, 26) + 97)
  ELSE IF code >= 48 /\ code <= 57
    THEN FromCharCode(JsRem(code - 48 - shift + 10, 10) + 48)
  ELSE code

snippetCaesarDecrypt(text, shift) ==
  [i \in 1..Len(text) |-> SnippetCaesarChar(text[i], shift)]

\* The script's hybridDecrypt; its catch block throws 'Hybrid decryption
\* failed: ...'.
snippetHybridDecrypt(encryptedText, key, salt) ==
  LET aesResult == aesDecrypt(encryptedText, key, salt)
      reencoded == IF aesResult.ok THEN Btoa(aesResult.v) ELSE aesResult
      xorResult == IF reencoded.ok THEN xorDecrypt(reencoded.v, key)
                   ELSE reencoded
  IN IF xorResult.ok
     THEN Ok(snippetCaesarDecrypt(xorResult.v, HybridShift(key)))
     ELSE Throw("Hybrid decryption failed")

\* The decryption routine of the script for each algorithm, called as the
\* script calls it; the caesar script holds the shift, computed when the
\* script was generated, and not the key.
SnippetDispatch(encryptedText, key, algorithm, salt) ==
  CASE algorithm = "aes" -> aesDecrypt(encryptedText, key, salt)
    [] algorithm = "caesar" ->
         Ok(snippetCaesarDecrypt(encryptedText, CaesarShift(key)))
    [] algorithm = "xor" -> xorDecrypt(encryptedText, key)
    [] algorithm = "base64" -> base64Decrypt(encryptedText)
    [] algorithm = "hybrid" -> snippetHybridDecrypt(encryptedText, key, salt)
    [] OTHER -> Throw("ReferenceError")

\* The script of generateDecryptionCode(result), run: what it logs as
\* decrypted text, or the error it stops with. The salt is embedded as a
\* literal, or as undefined when the result has none.
SnippetRun(encrypted, key, algorithm, salt) ==
  IF ~encrypted.ok \/ ~key.ok \/ ~salt.ok THEN Throw("SyntaxError")
  ELSE SnippetDispatch(encrypted.v, key.v, algorithm, salt.v)

generatedCodeRun(r) ==
  SnippetRun(StringLiteral(r.encrypted),
             IF r.algorithm = "caesar" THEN Ok(r.key)
             ELSE StringLiteral(r.key),
             r.algorithm, StringLiteral(r.salt))

(***************************************************************************)
(* JSON.stringify / JSON.parse on a list of StoredKey                      *)
(*                                                                         *)
(* A StoredKey is [id, name, key, algorithm, created, used]: four strings  *)
(* and two times; a time of 0 stands for an absent (or zero) field, which  *)
(* `x || Date.now()` treats alike.                                         *)
(***************************************************************************)

RECURSIVE Digits(_)
Digits(n) == IF n < 10 THEN << 48 + n >> ELSE Digits(n \div 10) \o << 48 + (n % 10) >>

HexDigit(d) == IF d < 10 THEN 48 + d ELSE 97 + (d - 10)

\* The escape of one code unit inside a JSON string.
JsonEscape(c) ==
  IF c = 34 THEN << 92, 34 >>
  ELSE IF c = 92 THEN << 92, 92 >>
  ELSE IF c = 8 THEN << 92, 98 >>
  ELSE IF c = 9 THEN << 92, 116 >>
  ELSE IF c = 10 THEN << 92, 110 >>
  ELSE IF c = 12 THEN << 92, 102 >>
  ELSE IF c = 13 THEN << 92, 114 >>
  ELSE IF c < 32 THEN << 92, 117, 48, 48, HexDigit(c \div 16), HexDigit(c % 16) >>
  ELSE << c >>

RECURSIVE JsonEscapeAll(_)
JsonEscapeAll(s) ==
  IF s = <<>> THEN <<>> ELSE JsonEscape(Head(s)) \o JsonEscapeAll(Tail(s))

JsonString(s) == << 34 >> \o JsonEscapeAll(s) \o << 34 >>

\* The property names of a StoredKey, as they are written: "id": etc.
NameId == << 34, 105, 100, 34, 58 >>

NameName == << 34, 110, 97, 109, 101, 34, 58 >>

NameKey == << 34, 107, 101, 121, 34, 58 >>

NameAlgorithm == << 34, 97, 108, 103, 111, 114, 105, 116, 104, 109, 34, 58 >>

NameCreated == << 34, 99, 114, 101, 97, 116, 101, 100, 34, 58 >>

NameUsed == << 34, 117, 115, 101, 100, 34, 58 >>

\* The members of a StoredKey as JSON.stringify writes them, gap being what
\* follows the colon; an absent `created` or `used` is not written.
KeyMembers(k, gap) ==
  << NameId \o gap \o JsonString(k.id), NameName \o gap \o JsonString(k.name),
     NameKey \o gap \o JsonString(k.key),
     NameAlgorithm \o gap \o JsonString(k.algorithm) >>
    \o (IF k.created # 0 THEN << NameCreated \o gap \o Digits(k.created) >>
        ELSE <<>>)
    \o (IF k.used # 0 THEN << NameUsed \o gap \o Digits(k.used) >> ELSE <<>>)

\* The texts of parts with sep between them.
RECURSIVE Join(_, _)
Join(parts, sep) ==
  IF parts = <<>> THEN <<>>
  ELSE IF Len(parts) = 1 THEN parts[1]
  ELSE parts[1] \o sep \o Join(Tail(parts), sep)

JsonOfKey(k) == << 123 >> \o Join(KeyMembers(k, <<>>), << 44 >>) \o << 125 >>

JsonOfKeys(keys) == Join([i \in 1..Len(keys) |-> JsonOfKey(keys[i])], << 44 >>)

\* JSON.stringify(keys)
JsonStringify(keys) == << 91 >> \o JsonOfKeys(keys) \o << 93 >>

\* One StoredKey as JSON.stringify(keys, null, 2) writes it.
PrettyOfKey(k) ==
  << 123, 10, 32, 32, 32, 32 >>
    \o Join(KeyMembers(k, << 32 >>), << 44, 10, 32, 32, 32, 32 >>)
    \o << 10, 32, 32, 125 >>

\* JSON.stringify(keys, null, 2)
JsonStringifyPretty(keys) ==
  IF keys = <<>> THEN << 91, 93 >>
  ELSE << 91, 10, 32, 32 >>
         \o Join([i \in 1..Len(keys) |-> PrettyOfKey(keys[i])],
                 << 44, 10, 32, 32 >>)
         \o << 10, 93 >>

\* The parsers read s from position i and return [ok, v, next].
Parsed(x, n) == [ok |-> TRUE, v |-> x, next |-> n]

NotParsed == [ok |-> FALSE, v |-> <<>>, next |-> 0]

Matches(s, i, lit) ==
  /\ i + Len(lit) - 1 <= Len(s)
  /\ \A j \in 1..Len(lit) : s[i + j - 1] = lit[j]

HexValue(c) ==
  IF c >= 48 /\ c <= 57 THEN c - 48
  ELSE IF c >= 97 /\ c <= 102 THEN c - 97 + 10
  ELSE IF c >= 65 /\ c <= 70 THEN c - 65 + 10
  ELSE 0 - 1

\* The characters of a JSON string up to its closing quote.
RECURSIVE ParseChars(_, _, _)
ParseChars(s, i, acc) ==
  IF i > Len(s) \/ s[i] < 32 THEN NotParsed
  ELSE IF s[i] = 34 THEN Parsed(acc, i + 1)
  ELSE IF s[i] # 92 THEN ParseChars(s, i + 1, Append(acc, s[i]))
  ELSE IF i + 1 > Len(s) THEN NotParsed
  ELSE IF s[i + 1] \in {34, 92, 47} THEN ParseChars(s, i + 2, Append(acc, s[i + 1]))
  ELSE IF s[i + 1] = 98 THEN ParseChars(s, i + 2, Append(acc, 8))
  ELSE IF s[i + 1] = 116 THEN ParseChars(s, i + 2, Append(acc, 9))
  ELSE IF s[i + 1] = 110 THEN ParseChars(s, i + 2, Append(acc, 10))
  ELSE IF s[i + 1] = 102 THEN ParseChars(s, i + 2, Append(acc, 12))
  ELSE IF s[i + 1] = 114 THEN ParseChars(s, i + 2, Append(acc, 13))
  ELSE IF /\ s[i + 1] = 117
          /\ i + 5 <= Len(s)
          /\ \A j \in 2..5 : HexValue(s[i + j]) >= 0
    THEN ParseChars(s, i + 6,
           Append(acc, HexValue(s[i + 2]) * 4096 + HexValue(s[i + 3]) * 256
                       + HexValue(s[i + 4]) * 16 + HexValue(s[i + 5])))
  ELSE NotParsed

ParseString(s, i) ==
  IF i <= Len(s) /\ s[i] = 34 THEN ParseChars(s, i + 1, <<>>) ELSE NotParsed

RECURSIVE ParseDigits(_, _, _)
ParseDigits(s, i, acc) ==
  IF i <= Len(s) /\ s[i] >= 48 /\ s[i] <= 57
  THEN ParseDigits(s, i + 1, acc * 10 + (s[i] - 48))
  ELSE Parsed(acc, i)

\* An integer without a leading zero (fractions and exponents are not
\* read).
ParseNatural(s, i) ==
  IF i > Len(s) \/ s[i] < 48 \/ s[i] > 57 THEN NotParsed
  ELSE IF s[i] = 48 THEN Parsed(0, i + 1)
  ELSE ParseDigits(s, i, 0)

Negated(n) == IF n.ok THEN Parsed(0 - n.v, n.next) ELSE NotParsed

ParseNumber(s, i) ==
  IF i <= Len(s) /\ s[i] = 45 THEN Negated(ParseNatural(s, i + 1))
  ELSE ParseNatural(s, i)

\* A JSON value: its type and, by type, a number, a string, the elements of
\* an array, or the property names and values of an object. Undefined is
\* what reading a missing property gives.
JsonValue(type, num, str, items, names) ==
  [type |-> type, num |-> num, str |-> str, items |-> items, names |-> names]

JsonNull == JsonValue("null", 0, <<>>, <<>>, <<>>)

JsonUndefined == JsonValue("undefined", 0, <<>>, <<>>, <<>>)

JsonBoolean(b) == JsonValue("boolean", IF b THEN 1 ELSE 0, <<>>, <<>>, <<>>)

JsonNumber(n) == JsonValue("number", n, <<>>, <<>>, <<>>)

JsonText(str) == JsonValue("string", 0, str, <<>>, <<>>)

JsonArray(items) == JsonValue("array", 0, <<>>, items, <<>>)

JsonObject(names, items) == JsonValue("object", 0, <<>>, items, names)

\* The first position from i on that holds no JSON white space.
RECURSIVE SkipWhiteSpace(_, _)
SkipWhiteSpace(s, i) ==
  IF i <= Len(s) /\ s[i] \in {32, 9, 10, 13} THEN SkipWhiteSpace(s, i + 1)
  ELSE i

AsText(str) == IF str.ok THEN Parsed(JsonText(str.v), str.next) ELSE NotParsed

AsNumber(n) == IF n.ok THEN Parsed(JsonNumber(n.v), n.next) ELSE NotParsed

RECURSIVE ParseValueAt(_, _)
RECURSIVE ParseElements(_, _, _)
RECURSIVE ParseMembers(_, _, _, _)
RECURSIVE ParseMemberValue(_, _, _, _)

\* The value that starts at position i, white space skipped.
ParseValue(s, i) == ParseValueAt(s, SkipWhiteSpace(s, i))

\* After an element: ',' and the next element, or ']'.
ElementsNext(s, acc, i) ==
  IF i > Len(s) THEN NotParsed
  ELSE IF s[i] = 44 THEN ParseElements(s, acc, ParseValue(s, i + 1))
  ELSE IF s[i] = 93 THEN Parsed(JsonArray(acc), i + 1)
  ELSE NotParsed

ParseElements(s, acc, value) ==
  IF ~value.ok THEN NotParsed
  ELSE ElementsNext(s, Append(acc, value.v), SkipWhiteSpace(s, value.next))

\* After '[': ']' or the first element.
ParseArray(s, i) ==
  IF i <= Len(s) /\ s[i] = 93 THEN Parsed(JsonArray(<<>>), i + 1)
  ELSE ParseElements(s, <<>>, ParseValueAt(s, i))

\* After a member: ',' and the next member, or '}'.
MembersNext(s, names, items, i) ==
  IF i > Len(s) THEN NotParsed
  ELSE IF s[i] = 44
    THEN ParseMembers(s, names, items,
           ParseString(s, SkipWhiteSpace(s, i + 1)))
  ELSE IF s[i] = 125 THEN Parsed(JsonObject(names, items), i + 1)
  ELSE NotParsed

MemberColon(s, names, items, i) ==
  IF i <= Len(s) /\ s[i] = 58
  THEN ParseMemberValue(s, names, items, ParseValue(s, i + 1))
  ELSE NotParsed

\* name is the property name read; its ':' and value follow.
ParseMembers(s, names, items, name) ==
  IF ~name.ok THEN NotParsed
  ELSE MemberColon(s, Append(names, name.v), items,
         SkipWhiteSpace(s, name.next))

ParseMemberValue(s, names, items, value) ==
  IF ~value.ok THEN NotParsed
  ELSE MembersNext(s, names, Append(items, value.v),
         SkipWhiteSpace(s, value.next))

\* After '{': '}' or the first member.
ParseObject(s, i) ==
  IF i <= Len(s) /\ s[i] = 125 THEN Parsed(JsonObject(<<>>, <<>>), i + 1)
  ELSE ParseMembers(s, <<>>, <<>>, ParseString(s, i))

ParseValueAt(s, i) ==
  IF i > Len(s) THEN NotParsed
  ELSE IF s[i] = 34 THEN AsText(ParseString(s, i))
  ELSE IF s[i] = 91 THEN ParseArray(s, SkipWhiteSpace(s, i + 1))
  ELSE IF s[i] = 123 THEN ParseObject(s, SkipWhiteSpace(s, i + 1))
  ELSE IF Matches(s, i, << 110, 117, 108, 108 >>) THEN Parsed(JsonNull, i + 4)
  ELSE IF Matches(s, i, << 116, 114, 117, 101 >>)
    THEN Parsed(JsonBoolean(TRUE), i + 4)
  ELSE IF Matches(s, i, << 102, 97, 108, 115, 101 >>)
    THEN Parsed(JsonBoolean(FALSE), i + 5)
  ELSE AsNumber(ParseNumber(s, i))

\* A value followed by nothing but white space.
WholeText(s, value) ==
  IF value.ok /\ SkipWhiteSpace(s, value.next) = Len(s) + 1 THEN value
  ELSE NotParsed

\* JSON.parse(s): [ok, v, next]; not ok is a SyntaxError.
JsonParse(s) == WholeText(s, ParseValue(s, 1))

\* The names of the properties of a StoredKey.
PropId == << 105, 100 >>

PropName == << 110, 97, 109, 101 >>

PropKey == << 107, 101, 121 >>

PropAlgorithm == << 97, 108, 103, 111, 114, 105, 116, 104, 109 >>

PropCreated == << 99, 114, 101, 97, 116, 101, 100 >>

PropUsed == << 117, 115, 101, 100 >>

\* value[name]: the last property of that name of an object, undefined for
\* a missing property and for a value that is no object.
Property(value, name) ==
  IF value.type = "object" /\ \E i \in 1..Len(value.names) : value.names[i] = name
  THEN value.items[CHOOSE i \in 1..Len(value.names) :
                     /\ value.names[i] = name
                     /\ \A j \in (i + 1)..Len(value.names) :
                          value.names[j] # name]
  ELSE JsonUndefined

IsText(value) == value.type = "string"

\* A time property: its number, 0 when it is absent (other values are read
\* as absent).
TimeOf(value) == IF value.type = "number" /\ value.num > 0 THEN value.num ELSE 0

\* The StoredKey an object holds (properties other than the six are not
\* kept).
KeyOfJson(value) ==
  [id |-> Property(value, PropId).str, name |-> Property(value, PropName).str,
   key |-> Property(value, PropKey).str,
   algorithm |-> Property(value, PropAlgorithm).str,
   created |-> TimeOf(Property(value, PropCreated)),
   used |-> TimeOf(Property(value, PropUsed))]

\* A filter that keeps every entry.
AnyEntry(value) == TRUE

\* The filter of getAllKeys: key && typeof key.id === 'string' && ...
HasStringFields(value) ==
  /\ IsText(Property(value, PropId))
  /\ IsText(Property(value, PropName))
  /\ IsText(Property(value, PropKey))
  /\ IsText(Property(value, PropAlgorithm))

(***************************************************************************)
(* KeyStorage (src/src/utils/keyStorage.ts)                                *)
(*                                                                         *)
(* localStorage holds two items, the payload and the master key; the empty *)
(* sequence stands for a missing item and for '' alike (both are falsy).   *)
(* host is what the page runs on: [seed, storage], the bytes its random    *)
(* source gives and how its localStorage behaves ("works"; "full": setItem *)
(* throws; "denied": every access throws), and random, whether             *)
(* crypto.getRandomValues is there to be called.                           *)
(* An operation returns a record of its value, the two items after it and  *)
(* threw; a try block returns, with threw, the value its catch block       *)
(* returns.                                                                *)
(***************************************************************************)

StorageModes == {"works", "full", "denied"}

GetItemThrows(host) == host.storage = "denied"

SetItemThrows(host) == host.storage # "works"

RemoveItemThrows(host) == host.storage = "denied"

\* crypto.getRandomValues(randomArray) throws on a host without it.
RandomThrows(host) == ~host.random

\* A try block whose exception nothing catches.
Uncaught(tried) == tried

\* try { ... } catch (error) { console.error(...); return ... }
Caught(tried) == [tried EXCEPT !.threw = FALSE]

MasterKeyLength == 32

\* The alphabet of generateMasterKey: the first 72 characters of chars.
masterChars == SubSeq(chars, 1, 72)

generateMasterKey(seed) ==
  LET randomArray == RandomBytes(seed, MasterKeyLength)
  IN [i \in 1..MasterKeyLength |->
        masterChars[(randomArray[i] % Len(masterChars)) + 1]]

\* getMasterKey() throws when getItem does, and for a missing key when
\* generateMasterKey does or setItem does for the key it generated.
getMasterKeyThrows(master, host) ==
  \/ GetItemThrows(host)
  \/ master = <<>> /\ (RandomThrows(host) \/ SetItemThrows(host))

\* getMasterKey(): the stored master key, generated and stored when missing.
getMasterKey(master, host) ==
  IF master = <<>> THEN generateMasterKey(host.seed) ELSE master

\* What a try block returns, or what its catch block returns when it threw.
OrElse(tried, fallback) == IF tried.ok THEN tried ELSE fallback

WithMaster(r, masterKey) ==
  [ok |-> r.ok, v |-> r.v, err |-> r.err, master |-> masterKey]

encryptDataWith(data, masterKey) ==
  WithMaster(OrElse(Btoa(XorStream(data, masterKey)), Btoa(data)), masterKey)

\* encryptData(data): [ok, v, err, master]; the fallback btoa(data) of the
\* catch block throws again when data holds a code unit above 255.
encryptData(data, master, host) ==
  IF getMasterKeyThrows(master, host) THEN WithMaster(Btoa(data), master)
  ELSE encryptDataWith(data, getMasterKey(master, host))

\* atob throws again in the catch block, which then returns "[]".
decryptDataWith(decoded, masterKey) ==
  [v |-> IF decoded.ok THEN XorStream(decoded.v, masterKey) ELSE << 91, 93 >>,
   master |-> masterKey]

\* The catch block of decryptData when getMasterKey threw.
decryptDataFallback(decoded, master) ==
  [v |-> IF decoded.ok THEN decoded.v ELSE << 91, 93 >>, master |-> master]

\* decryptData(encryptedData): [v, master]
decryptData(encryptedData, master, host) ==
  IF getMasterKeyThrows(master, host)
  THEN decryptDataFallback(Atob(encryptedData), master)
  ELSE decryptDataWith(Atob(encryptedData), getMasterKey(master, host))

\* keys.filter(...) on the elements of the array, each kept element as a
\* StoredKey.
RECURSIVE FilterKeys(_, _)
FilterKeys(items, acc) ==
  IF items = <<>> THEN acc
  ELSE FilterKeys(Tail(items),
         IF HasStringFields(Head(items))
         THEN Append(acc, KeyOfJson(Head(items)))
         ELSE acc)

\* The list getAllKeys returns for what JSON.parse gave: [] when it threw or
\* gave no array.
KeysOrNone(parsed) ==
  IF parsed.ok /\ parsed.v.type = "array" THEN FilterKeys(parsed.v.items, <<>>)
  ELSE <<>>

KeysOfParsed(parsed, master) ==
  [keys |-> KeysOrNone(parsed), master |-> master, threw |-> ~parsed.ok]

KeysOfDecrypted(decrypted) ==
  KeysOfParsed(JsonParse(decrypted.v), decrypted.master)

NoKeys(master, threw) == [keys |-> <<>>, master |-> master, threw |-> threw]

getAllKeysTry(payload, master, host) ==
  IF GetItemThrows(host) THEN NoKeys(master, TRUE)
  ELSE IF payload = <<>> THEN NoKeys(master, FALSE)
  ELSE KeysOfDecrypted(decryptData(payload, master, host))

\* getAllKeys(): [keys, master, threw]
getAllKeys(payload, master, host) ==
  Caught(getAllKeysTry(payload, master, host))

\* A findIndex that finds nothing.
FindIndexNone(keys, id) == 0

\* keys.findIndex(k => k.id === id), from 1; 0 when there is none.
FindIndex(keys, id) ==
  IF \E i \in 1..Len(keys) : keys[i].id = id
  THEN CHOOSE i \in 1..Len(keys) :
         keys[i].id = id /\ \A j \in 1..(i - 1) : keys[j].id # id
  ELSE 0

\* An upsert that always pushes.
UpsertPushed(keys, key, existingIndex, now) ==
  Append(keys,
    [key EXCEPT !.created = IF key.created # 0 THEN key.created ELSE now,
                !.used = IF key.used # 0 THEN key.used ELSE now])

\* The list after the upsert of key at existingIndex (0: no such record).
UpsertAt(keys, key, existingIndex, now) ==
  IF existingIndex > 0
  THEN [keys EXCEPT ![existingIndex] = [key EXCEPT !.used = now]]
  ELSE Append(keys,
         [key EXCEPT !.created = IF key.created # 0 THEN key.created ELSE now,
                     !.used = IF key.used # 0 THEN key.used ELSE now])

\* What a writing operation returns: [ret, payload, master, threw]
Wrote(ret, payload, master, threw) ==
  [ret |-> ret, payload |-> payload, master |-> master, threw |-> threw]

\* localStorage.setItem(STORAGE_KEY, encrypted); return true, unless
\* encryptData or setItem threw.
Persist(payload, encrypted, host) ==
  IF encrypted.ok /\ ~SetItemThrows(host)
  THEN Wrote(TRUE, encrypted.v, encrypted.master, FALSE)
  ELSE Wrote(FALSE, payload, encrypted.master, TRUE)

SaveInto(all, key, payload, host, now) ==
  IF all.threw THEN Wrote(FALSE, payload, all.master, TRUE)
  ELSE Persist(payload,
         encryptData(
           JsonStringify(
             UpsertAt(all.keys, key, FindIndex(all.keys, key.id), now)),
           all.master, host),
         host)

\* The try block of saveKey; 'Invalid key data' is thrown for a key without
\* id, name, key or algorithm.
saveKeyTry(key, payload, master, host, now) ==
  IF key.id = <<>> \/ key.name = <<>> \/ key.key = <<>> \/ key.algorithm = <<>>
  THEN Wrote(FALSE, payload, master, TRUE)
  ELSE SaveInto(getAllKeys(payload, master, host), key, payload, host, now)

\* saveKey(key) at time now: [ret, payload, master, threw]
saveKey(key, payload, master, host, now) ==
  Caught(saveKeyTry(key, payload, master, host, now))

NoKey ==
  [id |-> <<>>, name |-> <<>>, key |-> <<>>, algorithm |-> <<>>,
   created |-> 0, used |-> 0]

\* keys.find(k => k.id === id), i being the index of the record found
FindAt(all, i) ==
  [found |-> i > 0, key |-> IF i > 0 THEN all.keys[i] ELSE NoKey,
   master |-> all.master, threw |-> all.threw]

FindIn(all, id) == FindAt(all, FindIndex(all.keys, id))

getKeyTry(id, payload, master, host) ==
  IF id = <<>>
  THEN [found |-> FALSE, key |-> NoKey, master |-> master, threw |-> FALSE]
  ELSE FindIn(getAllKeys(payload, master, host), id)

\* getKey(id): [found, key, master, threw]
getKey(id, payload, master, host) ==
  Caught(getKeyTry(id, payload, master, host))

\* A filter that keeps nothing.
WithoutAny(keys, id) == <<>>

\* keys.filter(k => k.id !== id)
RECURSIVE WithoutId(_, _)
WithoutId(keys, id) ==
  IF keys = <<>> THEN <<>>
  ELSE IF Head(keys).id = id THEN WithoutId(Tail(keys), id)
  ELSE << Head(keys) >> \o WithoutId(Tail(keys), id)

\* A deleteKey that writes back every record it read.
DeleteNothingFrom(all, id, payload, host) ==
  IF all.threw THEN Wrote(FALSE, payload, all.master, TRUE)
  ELSE Persist(payload, encryptData(JsonStringify(all.keys), all.master, host),
               host)

DeleteFrom(all, id, payload, host) ==
  IF all.threw THEN Wrote(FALSE, payload, all.master, TRUE)
  ELSE Persist(payload,
         encryptData(JsonStringify(WithoutId(all.keys, id)), all.master, host),
         host)

deleteKeyTry(id, payload, master, host) ==
  IF id = <<>> THEN Wrote(FALSE, payload, master, FALSE)
  ELSE DeleteFrom(getAllKeys(payload, master, host), id, payload, host)

\* deleteKey(id): [ret, payload, master, threw]
deleteKey(id, payload, master, host) ==
  Caught(deleteKeyTry(id, payload, master, host))

UpdateFound(found, payload, host, now) ==
  IF found.found
  THEN saveKey([found.key EXCEPT !.used = now], payload, found.master, host,
               now)
  ELSE Wrote(FALSE, payload, found.master, found.threw)

\* updateKeyUsage(id) at time now: [ret, payload, master, threw]
updateKeyUsage(id, payload, master, host, now) ==
  Caught(UpdateFound(getKey(id, payload, master, host), payload, host, now))

clearAllKeysTry(payload, master, host) ==
  IF RemoveItemThrows(host) THEN Wrote(FALSE, payload, master, TRUE)
  ELSE Wrote(TRUE, <<>>, master, FALSE)

\* clearAllKeys(): [ret, payload, master, threw]
clearAllKeys(payload, master, host) ==
  Caught(clearAllKeysTry(payload, master, host))

ExportOf(all) ==
  [text |-> IF all.threw THEN << 91, 93 >> ELSE JsonStringifyPretty(all.keys),
   master |-> all.master, threw |-> all.threw]

\* exportKeys(): [text, master, threw]
exportKeys(payload, master, host) ==
  Caught(ExportOf(getAllKeys(payload, master, host)))

\* The algorithms validateKeyStructure accepts: aes, caesar, xor, base64,
\* hybrid.
ImportAlgorithms ==
  {<< 97, 101, 115 >>, << 99, 97, 101, 115, 97, 114 >>, << 120, 111, 114 >>,
   << 98, 97, 115, 101, 54, 52 >>, << 104, 121, 98, 114, 105, 100 >>}

\* Whether a value counts as true.
Truthy(value) ==
  CASE value.type \in {"null", "undefined"} -> FALSE
    [] value.type \in {"boolean", "number"} -> value.num # 0
    [] value.type = "string" -> value.str # <<>>
    [] OTHER -> TRUE

validateKeyStructure(key) ==
  /\ Truthy(key)
  /\ key.type \in {"object", "array"}
  /\ IsText(Property(key, PropName))
  /\ IsText(Property(key, PropKey))
  /\ IsText(Property(key, PropAlgorithm))
  /\ Trim(Property(key, PropName).str) # <<>>
  /\ Trim(Property(key, PropKey).str) # <<>>
  /\ Property(key, PropAlgorithm).str \in ImportAlgorithms

\* A message of result.errors: its kind and, for an element, what
\* `key.name || 'Unknown'` gave (undefined for the other messages).
ImportError(kind, name) == [kind |-> kind, name |-> name]

Unknown == JsonText(<< 85, 110, 107, 110, 111, 119, 110 >>)

NameOrUnknown(key) ==
  IF Truthy(Property(key, PropName)) THEN Property(key, PropName) ELSE Unknown

\* { ...key, id: Date.now().toString() + Math.random().toString(36)
\* .substr(2, 9) }, suffix being the characters Math.random() gave.
ImportedKey(key, now, suffix) ==
  [KeyOfJson(key) EXCEPT !.id = Digits(now) \o suffix]

\* The characters the n-th call of Math.random() gives.
Draw(suffixes, n) == suffixes[((n - 1) % Len(suffixes)) + 1]

\* What importKeys holds during its loop: the count, the messages, the
\* number of calls of Math.random() and the two items.
Importing(imported, errors, draws, payload, master) ==
  [imported |-> imported, errors |-> errors, draws |-> draws,
   payload |-> payload, master |-> master]

\* What importKeys returns, with the two items and threw.
Imported(success, imported, errors, payload, master, threw) ==
  [success |-> success, imported |-> imported, errors |-> errors,
   payload |-> payload, master |-> master, threw |-> threw]

\* The loop after saveKey(newKey) returned saved for the element key.
AfterSave(acc, key, saved) ==
  Importing(IF saved.ret THEN acc.imported + 1 ELSE acc.imported,
            IF saved.ret THEN acc.errors
            ELSE Append(acc.errors,
                   ImportError("Failed to save key", NameOrUnknown(key))),
            acc.draws + 1, saved.payload, saved.master)

\* The loop of importKeys over the elements left; reading key.name of a
\* null element throws, which ends the try block with result.imported and
\* result.success as they were set at first.
RECURSIVE ImportEach(_, _, _, _, _)
ImportEach(items, acc, host, now, suffixes) ==
  IF items = <<>>
  THEN Imported(acc.imported > 0, acc.imported, acc.errors, acc.payload,
                acc.master, FALSE)
  ELSE IF validateKeyStructure(Head(items))
  THEN ImportEach(Tail(items),
         AfterSave(acc, Head(items),
           saveKey(ImportedKey(Head(items), now,
                               Draw(suffixes, acc.draws + 1)),
                   acc.payload, acc.master, host, now)),
         host, now, suffixes)
  ELSE IF Head(items).type = "null"
  THEN Imported(FALSE, 0,
                Append(acc.errors, ImportError("Parse error", JsonUndefined)),
                acc.payload, acc.master, TRUE)
  ELSE ImportEach(Tail(items),
         Importing(acc.imported,
                   Append(acc.errors,
                     ImportError("Invalid key structure",
                                 NameOrUnknown(Head(items)))),
                   acc.draws, acc.payload, acc.master),
         host, now, suffixes)

ImportParsed(parsed, payload, master, host, now, suffixes) ==
  IF ~parsed.ok
  THEN Imported(FALSE, 0, << ImportError("Parse error", JsonUndefined) >>,
                payload, master, TRUE)
  ELSE IF parsed.v.type # "array"
  THEN Imported(FALSE, 0,
                << ImportError("Invalid format: expected array of keys",
                               JsonUndefined) >>,
                payload, master, FALSE)
  ELSE ImportEach(parsed.v.items, Importing(0, <<>>, 0, payload, master), host,
                  now, suffixes)

\* importKeys(keysData) at time now:
\* [success, imported, errors, payload, master, threw]
importKeys(keysData, payload, master, host, now, suffixes) ==
  Caught(ImportParsed(JsonParse(keysData), payload, master, host, now,
                      suffixes))

(***************************************************************************)
(* EncryptionForm (src/unnamed/part_002)                                   *)
(***************************************************************************)

\* The range of the key length slider and of the clamp in handleEncrypt.
MinKeyLength == 16

MaxKeyLength == 64

\* The config handleEncrypt builds from the state of the form (useTimestamp,
\* which encrypt does not read, left out).
FormConfig(form) ==
  [algorithm |-> form.algorithm,
   keyLength |-> Max(MinKeyLength, Min(MaxKeyLength, form.keyLength)),
   useSalt |-> form.useSalt /\ form.algorithm # "caesar"
                            /\ form.algorithm # "base64"]

\* The characters of the name of an algorithm.
AlgorithmChars(algorithm) ==
  CASE algorithm = "aes" -> << 97, 101, 115 >>
    [] algorithm = "caesar" -> << 99, 97, 101, 115, 97, 114 >>
    [] algorithm = "xor" -> << 120, 111, 114 >>
    [] algorithm = "base64" -> << 98, 97, 115, 101, 54, 52 >>
    [] algorithm = "hybrid" -> << 104, 121, 98, 114, 105, 100 >>
    [] OTHER -> <<>>

\* The StoredKey handleEncrypt saves: the id is Date.now().toString() followed
\* by the characters drawn from Math.random().
FormStoredKey(result, keyName, suffix, now) ==
  [id |-> Digits(now) \o suffix, name |-> Trim(keyName), key |-> result.key,
   algorithm |-> AlgorithmChars(result.algorithm), created |-> now,
   used |-> now]

(***************************************************************************)
(* DecryptionForm (src/unnamed/part_000)                                   *)
(***************************************************************************)

\* storedKey.algorithm as EncryptionAlgorithm: the algorithm whose name the
\* stored characters spell, or one that decrypt does not support.
AlgorithmNamed(stored) ==
  IF \E a \in Algorithms : AlgorithmChars(a) = stored
  THEN CHOOSE a \in Algorithms : AlgorithmChars(a) = stored
  ELSE "unsupported"

\* The message handleDecrypt sets instead of decrypting, "" when it goes on.
DecryptFormError(d, key) ==
  IF Trim(d.encryptedText) = <<>> THEN "Please enter encrypted text"
  ELSE IF ~d.useStoredKey /\ Trim(key) = <<>>
    THEN "Please enter a decryption key"
  ELSE IF d.useStoredKey /\ d.selectedStoredKey = <<>>
    THEN "Please select a stored key"
  ELSE ""

\* The arguments handleDecrypt passes to decrypt with the stored key found.
StoredKeyCall(d, storedKey) ==
  [encryptedText |-> Trim(d.encryptedText), key |-> storedKey.key,
   algorithm |-> AlgorithmNamed(storedKey.algorithm), salt |-> d.salt]

\* DecryptionForm after decrypt returned r.
DecryptFormAfter(d, r) ==
  IF r.success
  THEN [d EXCEPT !.error = "", !.success = "Text decrypted successfully!"]
  ELSE [d EXCEPT !.error = IF r.error # "" THEN r.error
                           ELSE "Decryption failed",
                 !.success = ""]

(***************************************************************************)
(* KeyManager (src/unnamed/part_001)                                       *)
(***************************************************************************)

\* s.toLowerCase(), for the letters of ASCII and Latin-1 (other code units
\* are left as they are).
ToLowerCase(s) ==
  [i \in 1..Len(s) |->
     IF (s[i] >= 65 /\ s[i] <= 90) \/ (s[i] >= 192 /\ s[i] <= 222 /\ s[i] # 215)
     THEN s[i] + 32
     ELSE s[i]]

\* keys.some(key => key.name.toLowerCase() ===
\* newKeyName.trim().toLowerCase())
NameExists(keys, newKeyName) ==
  \E i \in 1..Len(keys) :
    ToLowerCase(keys[i].name) = ToLowerCase(Trim(newKeyName))

\* The message handleAddKey sets before it saves anything, "" when it goes
\* on to save.
AddKeyError(keys, newKeyName, newKeyValue) ==
  IF Trim(newKeyName) = <<>> THEN "Please enter a key name"
  ELSE IF Trim(newKeyValue) = <<>> THEN "Please enter a key value"
  ELSE IF NameExists(keys, newKeyName)
    THEN "A key with this name already exists"
  ELSE ""

\* The StoredKey handleAddKey saves.
NewKey(newKeyName, newKeyValue, newKeyAlgorithm, suffix, now) ==
  [id |-> Digits(now) \o suffix, name |-> Trim(newKeyName),
   key |-> Trim(newKeyValue), algorithm |-> newKeyAlgorithm, created |-> now,
   used |-> now]

(***************************************************************************)
(* Bounds of the model and the input samples                               *)
(***************************************************************************)

MaxTextLen == 2

MaxKeyLen == 2

MaxCipherLen == 3

SeqsUpTo(S, n) == UNION {[1..m -> S] : m \in 0..n}

\* ' ', 'a', 'z', '9' and the euro sign (a code unit above 255).
TextChars == {32, 97, 122, 57, 8364}

\* Random bytes: chars[1] = 'B', chars[52] = '0', chars[74] = '-'.
SeedBytes == {1, 52, 74}

Seeds == [1..2 -> SeedBytes]

SaltSeeds == {<<7, 60>>}

OtherAlgorithm == "rot13"

KeyLengths == {0 - 1, 0, 5, 16, 64, 70}

Configs ==
  [algorithm : Algorithms \cup {OtherAlgorithm}, keyLength : KeyLengths,
   useSalt : BOOLEAN]

\* '!', 'z', '9' and the code unit 255.
LayerTextChars == {33, 122, 57, 255}

\* 'A', 'B' and a code unit above 255.
LayerKeyChars == {65, 66, 300}

LayerKeys == SeqsUpTo(LayerKeyChars, MaxKeyLen) \ {<<>>}

\* No salt, "s", and "s" followed by the euro sign.
LayerSalts == {<<>>, <<115>>, <<115, 8364>>}

\* ' ', 'A', '=', '!', '/', 'w'
CipherChars == {32, 65, 61, 33, 47, 119}

\* Keys a caller may pass to decrypt: empty, blank, "A", "-B" and one with a
\* code unit above 255.
CallerKeys == {<<>>, <<32>>, <<65>>, <<45, 66>>, <<300, 65>>}

MaxClock == 2

\* The largest shift passed to the Caesar layer: every residue of 26.
MaxShift == 25

\* Random bytes that index 'A', 'B', '0', '!', '+', '-' and the last
\* symbol '?' of chars, and bytes past the length of chars.
KeyBytes == {0, 1, 52, 62, 73, 74, 87, 88, 91, 255}

\* The keys passed to deriveKey: the keys of the layers and a key of 33
\* characters.
DerivedKeys == LayerKeys \cup {generateKey(33, << 1, 52 >>).v}

\* The lengths passed to generateKey.
GeneratedLengths == {0 - 1, 0, 1, 16, 32}

\* 'a', 'z', '9', the double quote and the euro sign
SnippetChars == {97, 122, 57, 34, 8364}

\* The configs of the results a script is generated for.
SnippetConfigs ==
  [algorithm : Algorithms, keyLength : {16}, useSalt : BOOLEAN]

\* 'A', 'Z', 'a', 'z', '0', '9' and '!'
CaesarChars == {65, 90, 97, 122, 48, 57, 33}

\* The texts passed to the Caesar layer: none, one character, and "Zz9!".
CaesarTexts == SeqsUpTo(CaesarChars, 1) \cup {<< 90, 122, 57, 33 >>}

\* No id, "a" and "b".
VaultIds == {<<>>, << 97 >>, << 98 >>}

\* "n", "m" and the euro sign (a code unit above 255).
VaultNames == {<< 110 >>, << 109 >>, << 8364 >>}

\* The records passed to saveKey: key "k", algorithm "xor", no created, used
\* absent or 7; the second name and the euro sign come with the id "a" only.
SampleKeys ==
  {k \in [id : VaultIds, name : VaultNames, key : {<< 107 >>},
          algorithm : {<< 120, 111, 114 >>}, created : {0}, used : {0, 7}] :
     /\ k.id = <<>> => (k.name = << 110 >> /\ k.used = 0)
     /\ k.name = << 8364 >> => (k.id = << 97 >> /\ k.used = 0)
     /\ k.name = << 109 >> => k.id = << 97 >>}

MasterSeeds == {<< 1, 2 >>, << 200 >>}

Host(seed, storage) == [seed |-> seed, storage |-> storage, random |-> TRUE]

\* The host without crypto.getRandomValues.
NoRandom(host) == [host EXCEPT !.random = FALSE]

\* The hosts whose localStorage works.
Hosts == {Host(seed, "works") : seed \in MasterSeeds}

\* The host with its localStorage working.
Intact(host) == Host(host.seed, "works")

\* The records "a" and "b" of the stores a run starts from.
KeyA ==
  [id |-> << 97 >>, name |-> << 110 >>, key |-> << 107 >>,
   algorithm |-> << 120, 111, 114 >>, created |-> 0, used |-> 0]

KeyB == [KeyA EXCEPT !.id = << 98 >>]

NoStore == [payload |-> <<>>, master |-> <<>>]

StoreOf(r) == [payload |-> r.payload, master |-> r.master]

\* The store after saveKey(k) at time 1.
Saved(k, store) ==
  StoreOf(saveKey(k, store.payload, store.master, Host(<< 1, 2 >>, "works"),
                  1))

\* The stores a run starts from: nothing saved yet, "a" saved, and "a" then
\* "b" saved.
InitStores ==
  {NoStore, Saved(KeyA, NoStore), Saved(KeyB, Saved(KeyA, NoStore))}

\* Every host: the first with a localStorage that works, is full, or denies
\* access, and the second with one that works.
AllHosts == Hosts \cup {Host(<< 1, 2 >>, "full"), Host(<< 1, 2 >>, "denied")}

\* The master key of the stores a run starts from.
StoredMaster == generateMasterKey(<< 1, 2 >>)

\* The text of an object with the members given.
ObjectText(members) == << 123 >> \o Join(members, << 44 >>) \o << 125 >>

\* The text of an array with the elements given.
ArrayText(elements) == << 91 >> \o Join(elements, << 44 >>) \o << 93 >>

\* The members "name": "n", "key": "k" and "algorithm": "xor", an algorithm
\* that does not exist, and a number as id.
MemberName == NameName \o JsonString(<< 110 >>)

MemberKey == NameKey \o JsonString(<< 107 >>)

MemberAlgorithm == NameAlgorithm \o JsonString(<< 120, 111, 114 >>)

MemberRot13 == NameAlgorithm \o JsonString(<< 114, 111, 116, 49, 51 >>)

MemberNumberId == NameId \o << 53 >>

\* Elements of an imported array: two valid records (the first carrying the
\* id "a"), a record without `key`, one with an algorithm that does not
\* exist, one whose name cannot be stored, a number and null.
ValidA == JsonOfKey(KeyA)

ValidM == ObjectText(<< NameName \o JsonString(<< 109 >>), MemberKey,
                        MemberAlgorithm >>)

MissingKey == ObjectText(<< MemberName, MemberAlgorithm >>)

OtherAlgorithmKey == ObjectText(<< MemberName, MemberKey, MemberRot13 >>)

EuroName == ObjectText(<< NameName \o JsonString(<< 8364 >>), MemberKey,
                          MemberAlgorithm >>)

NumberText == << 55 >>

NullText == << 110, 117, 108, 108 >>

\* A record whose id is a number.
NumberId == ObjectText(<< MemberNumberId, MemberName, MemberKey,
                          MemberAlgorithm >>)

\* The texts given to importKeys: two valid and one invalid element in every
\* order, an invalid element of every kind between two valid ones, an
\* object, a text that is no JSON, the empty array, and a record that
\* cannot be saved.
ImportTexts ==
  {ArrayText(<< MissingKey, ValidA, ValidM >>),
   ArrayText(<< ValidA, MissingKey, ValidM >>),
   ArrayText(<< ValidA, ValidM, MissingKey >>),
   ArrayText(<< ValidA, OtherAlgorithmKey, ValidM >>),
   ArrayText(<< ValidA, NumberText, ValidM >>),
   ArrayText(<< ValidA, NullText, ValidM >>),
   ArrayText(<< ValidA, EuroName >>),
   ObjectText(<<>>), << 91 >>, ArrayText(<<>>)}

\* What a damaged payload holds: text that is not base64; base64 of bytes
\* that are no JSON once decrypted; an encrypted object; an encrypted array
\* and the plain base64 of an array, with entries that are no StoredKey.
MixedText == ArrayText(<< NullText, NumberId, ValidA, NumberText >>)

DamagedPayloads ==
  {<< 33, 33 >>, Btoa(<< 97, 98, 99 >>).v,
   Btoa(XorStream(ObjectText(<< MemberName >>), StoredMaster)).v,
   Btoa(XorStream(MixedText, StoredMaster)).v, Btoa(MixedText).v}

\* The stores a run on a damaged or failing store starts from.
FaultyStores ==
  InitStores
    \cup [payload : DamagedPayloads, master : {<<>>, StoredMaster}]

\* The keys given to saveKey on such a store: the samples and records
\* without name, key or algorithm.
FaultyKeys ==
  {KeyA, [KeyA EXCEPT !.id = <<>>], [KeyA EXCEPT !.name = <<>>],
   [KeyA EXCEPT !.key = <<>>], [KeyA EXCEPT !.algorithm = <<>>],
   [KeyB EXCEPT !.name = << 8364 >>]}

\* The calls that write in one run of a sequence of calls.
MaxCalls == 3

\* The host of a sequence of calls.
SequenceHost == Host(<< 1, 2 >>, "works")

\* The keys saved in a sequence of calls: "a"; "a" again, named "N" and
\* carrying a time of creation; "b" named "N"; "b" with a blank name and an
\* algorithm that does not exist.
SequenceKeys ==
  {KeyA, [KeyA EXCEPT !.name = << 78 >>, !.created = 5],
   [KeyB EXCEPT !.name = << 78 >>],
   [KeyB EXCEPT !.name = << 32 >>,
                !.algorithm = << 114, 111, 116, 49, 51 >>]}

SequenceIds == {<< 97 >>, << 98 >>}

\* The keys that two contexts save: "a", "b", and "a" named "N".
ContextKeys == {KeyA, KeyB, [KeyA EXCEPT !.name = << 78 >>]}

\* The id that two contexts delete: "a".
ContextIds == {<< 97 >>}

\* The hosts of a run through the vault codec: one that can generate a
\* master key and one that cannot.
CodecHosts == {SequenceHost, NoRandom(SequenceHost)}

\* The keys saved in such a run: "a", "b", and "b" named with the euro sign.
CodecKeys == {KeyA, KeyB, [KeyB EXCEPT !.name = << 8364 >>]}

\* The names typed into the add form of KeyManager: "N", " n" and blank.
NewKeyNames == {<< 78 >>, << 32, 110 >>, << 32 >>}

\* What Math.random() gives during one importKeys: the same characters at
\* every call, or two in turn.
SuffixDraws == {<< << 52, 102 >> >>, << << 52, 102 >>, << 122 >> >>}

\* The texts typed into the form: none, blank, "a" and the euro sign.
FormTexts == {<<>>, << 32 >>, << 97 >>, << 8364 >>}

\* The key name typed into the form: none, blank, " n" and the euro sign.
FormKeyNames == {<<>>, << 32 >>, << 32, 110 >>, << 8364 >>}

\* DecryptionForm as it is mounted.
NoDecryptForm ==
  [encryptedText |-> <<>>, useStoredKey |-> FALSE, selectedStoredKey |-> <<>>,
   salt |-> <<>>, error |-> "", success |-> ""]

\* The state of the form before the button is pressed; the slider keeps the
\* key length between 16 and 64.
Forms ==
  [algorithm : Algorithms, keyLength : {MinKeyLength, 32, MaxKeyLength},
   useSalt : BOOLEAN, saveKey : BOOLEAN, keyName : FormKeyNames,
   error : {""}, success : {""}, decrypt : {NoDecryptForm}]

\* The form filled in to encrypt and save the key under the name " n".
SavingForms ==
  {f \in Forms : f.saveKey /\ f.keyName = << 32, 110 >> /\ f.keyLength = 32}

\* The texts encrypted with a key that is saved: "a", "z", "a " and the
\* euro sign.
SavingTexts == {<< 97 >>, << 122 >>, << 97, 32 >>, << 8364 >>}

\* The form as it is mounted.
DefaultForm ==
  [algorithm |-> "aes", keyLength |-> 32, useSalt |-> TRUE,
   saveKey |-> FALSE, keyName |-> <<>>, error |-> "", success |-> "",
   decrypt |-> NoDecryptForm]

\* What Math.random().toString(36).substr(2, 9) adds to the id: nothing when
\* Math.random() returns 0, else up to nine characters.
IdSuffixes == {<<>>, << 52, 102 >>}

(***************************************************************************)
(* State                                                                   *)
(***************************************************************************)

VARIABLES
  text,        \* the text passed to encrypt or to a cipher layer
  config,      \* the EncryptionConfig passed to encrypt
  seedKey,     \* the random source's outcome for the key
  seedSalt,    \* the random source's outcome for the salt
  now,         \* Date.now()
  result,      \* what encrypt returned (EncryptionResult) or raised
  call,        \* the arguments of the last decrypt call
  decryption,  \* the DecryptionResult of the last decrypt call
  key,         \* the key passed to a cipher layer
  salt,        \* the salt passed to a cipher layer
  layer,       \* the last call of a cipher layer: what it was (op), its
               \* arguments and what it returned
  payload,     \* localStorage item 'cryptostring_keys'
  master,      \* localStorage item 'cryptostring_master_key'
  vault,       \* the last KeyStorage call that writes, and what it returned
  got,         \* what the last KeyStorage call that reads returned
  calls,       \* the number of KeyStorage calls that write, so far
  contexts,    \* the KeyStorage call in progress in each browsing context
               \* that shares the localStorage
  form         \* the state of EncryptionForm, and in decrypt that of
               \* DecryptionForm

cipherVars ==
  << text, config, seedKey, seedSalt, result, call, decryption, key, salt,
     layer >>

vaultVars == << payload, master, vault, got, calls, contexts >>

vars == << cipherVars, vaultVars, now, form >>

NoCall ==
  [encryptedText |-> <<>>, key |-> <<>>, algorithm |-> "", salt |-> <<>>]

NoLayer ==
  [op |-> "none", key2 |-> <<>>, encrypted |-> Throw(""),
   decrypted |-> Throw("")]

NoConfig == [algorithm |-> "", keyLength |-> 0, useSalt |-> FALSE]

\* What importKeys returns before anything is imported.
NoReport == [success |-> FALSE, imported |-> 0, errors |-> <<>>]

\* No call yet. A call is recorded with its host and arguments (key, id,
\* data), what it returned (ret, report) or the message the form set
\* instead of calling (error), whether it raised, when it was
\* made, the payload before it (prior) and what getAllKeys() gave before it
\* (before; present: id was stored).
NoVaultCall ==
  [op |-> "none", host |-> Host(<<>>, "works"), key |-> NoKey, id |-> <<>>,
   data |-> <<>>, ret |-> FALSE, report |-> NoReport, error |-> "",
   raised |-> FALSE, time |-> 0, prior |-> <<>>, present |-> FALSE,
   before |-> <<>>]

\* No call that reads yet. A call is recorded with its host and argument,
\* what it returned (found and key, keys, or text) and whether it raised.
NoGot ==
  [state |-> "none", host |-> Host(<<>>, "works"), id |-> <<>>,
   found |-> FALSE, key |-> NoKey, keys |-> <<>>, text |-> <<>>,
   raised |-> FALSE]

\* The browsing contexts (tabs) that share the localStorage.
Contexts == {1, 2}

\* A context that has called nothing yet. A call is of (op, key, id); at
\* "read" it holds the keys that getAllKeys() returned, and stale says that
\* the other context has written since; at "idle" ret is what the last call
\* returned.
NoContext ==
  [pc |-> "idle", op |-> "none", key |-> NoKey, id |-> <<>>, keys |-> <<>>,
   stale |-> FALSE, ret |-> FALSE]

\* No context has called anything: of is the state of each context, started
\* the number of calls started, latest the record that the calls written
\* so far, one after the other in the order of their writes, leave under
\* each id (NoKey: none), and raced whether a call has written what it
\* computed from keys that were stale.
NoContexts ==
  [of |-> [c \in Contexts |-> NoContext], started |-> 0,
   latest |-> [id \in SequenceIds |-> NoKey], raced |-> FALSE]

\* The store before any key was saved.
EmptyStore ==
  /\ payload = <<>>
  /\ master = <<>>
  /\ vault = NoVaultCall
  /\ got = NoGot
  /\ calls = 0
  /\ contexts = NoContexts

(***************************************************************************)
(* The top-level API: encrypt, then decrypt                                *)
(***************************************************************************)

InitApi ==
  /\ text \in SeqsUpTo(TextChars, MaxTextLen)
  /\ config \in Configs
  /\ seedKey \in Seeds
  /\ seedSalt \in SaltSeeds
  /\ config.keyLength # 16 => (Len(text) <= 1 /\ seedKey = <<1, 52>>)
  /\ now = 1
  /\ result = NoResult
  /\ call = NoCall
  /\ decryption = NoDecryption
  /\ key = <<>>
  /\ salt = <<>>
  /\ layer = NoLayer
  /\ form = DefaultForm
  /\ EmptyStore

\* encrypt(text, config)
Encrypt ==
  /\ result.state = "none"
  /\ result' = encrypt(text, config, seedKey, seedSalt, now)
  /\ UNCHANGED << vaultVars, form, text, config, seedKey, seedSalt, now, call,
                  decryption, key, salt, layer >>

\* decrypt(result.encrypted, result.key, result.algorithm, result.salt)
Decrypt ==
  /\ result.state = "returned"
  /\ decryption.state = "none"
  /\ call' = [encryptedText |-> result.encrypted, key |-> result.key,
              algorithm |-> result.algorithm, salt |-> result.salt]
  /\ decryption' = decrypt(result.encrypted, result.key, result.algorithm,
                           result.salt)
  /\ UNCHANGED << vaultVars, form, text, config, seedKey, seedSalt, now,
                  result, key, salt, layer >>

\* Another key generateKey can return for the length of k, and a blank key.
OtherKeys(k) ==
  {generateKey(Len(k), <<52, 1>>).v, generateKey(Len(k), <<1, 1>>).v, <<32>>}
    \ {k}

\* decrypt of an encrypt result with another key or another algorithm, and
\* the salt of the result.
DecryptWith ==
  /\ result.state = "returned"
  /\ decryption.state = "none"
  /\ \E k2 \in OtherKeys(result.key) \cup {result.key},
        a2 \in Algorithms \cup {OtherAlgorithm} :
       /\ k2 # result.key \/ a2 # result.algorithm
       /\ k2 # result.key => a2 \in {result.algorithm, "xor"}
       /\ call' = [encryptedText |-> result.encrypted, key |-> k2,
                   algorithm |-> a2, salt |-> result.salt]
       /\ decryption' = decrypt(result.encrypted, k2, a2, result.salt)
  /\ UNCHANGED << vaultVars, form, text, config, seedKey, seedSalt, now,
                  result, key, salt, layer >>

NextApi == Encrypt \/ Decrypt \/ DecryptWith

SpecApi == InitApi /\ [][NextApi]_vars

(***************************************************************************)
(* encrypt, then decrypt and the script of generateDecryptionCode          *)
(***************************************************************************)

InitSnippet ==
  /\ text \in SeqsUpTo(SnippetChars, MaxTextLen)
  /\ config \in SnippetConfigs
  /\ seedKey \in Seeds
  /\ seedSalt \in SaltSeeds
  /\ now = 1
  /\ result = NoResult
  /\ call = NoCall
  /\ decryption = NoDecryption
  /\ key = <<>>
  /\ salt = <<>>
  /\ layer = NoLayer
  /\ form = DefaultForm
  /\ EmptyStore

\* The script of generateDecryptionCode(result) is run.
RunGeneratedCode ==
  /\ result.state = "returned"
  /\ layer.op = "none"
  /\ layer' = [op |-> "script", decrypted |-> generatedCodeRun(result)]
  /\ UNCHANGED << vaultVars, form, text, config, seedKey, seedSalt, now,
                  result, call, decryption, key, salt >>

NextSnippet == Encrypt \/ Decrypt \/ RunGeneratedCode

SpecSnippet == InitSnippet /\ [][NextSnippet]_vars

(***************************************************************************)
(* decrypt on any ciphertext                                               *)
(***************************************************************************)

InitDecrypt ==
  /\ text = <<>>
  /\ config = NoConfig
  /\ seedKey = <<1, 52>>
  /\ seedSalt = <<7, 60>>
  /\ now = 1
  /\ result = NoResult
  /\ call = NoCall
  /\ decryption = NoDecryption
  /\ key = <<>>
  /\ salt = <<>>
  /\ layer = NoLayer
  /\ form = DefaultForm
  /\ EmptyStore

\* decrypt(encryptedText, key, algorithm, salt) with arguments of the caller.
DecryptCall ==
  /\ decryption.state = "none"
  /\ \E ct \in SeqsUpTo(CipherChars, MaxCipherLen), k \in CallerKeys,
        a \in Algorithms \cup {OtherAlgorithm}, s \in {<<>>, <<115>>} :
       /\ call' = [encryptedText |-> ct, key |-> k, algorithm |-> a,
                   salt |-> s]
       /\ decryption' = decrypt(ct, k, a, s)
  /\ UNCHANGED << vaultVars, form, text, config, seedKey, seedSalt, now,
                  result, key, salt, layer >>

NextDecrypt == DecryptCall

SpecDecrypt == InitDecrypt /\ [][NextDecrypt]_vars

(***************************************************************************)
(* The cipher layers called directly                                       *)
(***************************************************************************)

InitLayers ==
  /\ text \in SeqsUpTo(LayerTextChars, MaxTextLen)
  /\ key \in LayerKeys
  /\ salt \in LayerSalts
  /\ config = NoConfig
  /\ seedKey = <<1, 52>>
  /\ seedSalt = <<7, 60>>
  /\ now = 1
  /\ result = NoResult
  /\ call = NoCall
  /\ decryption = NoDecryption
  /\ layer = NoLayer
  /\ form = DefaultForm
  /\ EmptyStore

\* decrypt applied to what encrypt returned; a throw of encrypt is kept.
Then(enc, dec(_)) == IF enc.ok THEN dec(enc.v) ELSE enc

\* xorDecrypt(xorEncrypt(text, key), key)
XorRoundTrip ==
  /\ layer.op = "none"
  /\ LET enc == xorEncrypt(text, key)
         D(c) == xorDecrypt(c, key)
     IN layer' = [op |-> "xor", key2 |-> key, encrypted |-> enc,
                  decrypted |-> Then(enc, D)]
  /\ UNCHANGED << vaultVars, form, text, config, seedKey, seedSalt, now,
                  result, call, decryption, key, salt >>

\* aesDecrypt(aesEncrypt(text, key, salt), key, salt)
AesRoundTrip ==
  /\ layer.op = "none"
  /\ LET enc == aesEncrypt(text, key, salt)
         D(c) == aesDecrypt(c, key, salt)
     IN layer' = [op |-> "aes", key2 |-> key, encrypted |-> enc,
                  decrypted |-> Then(enc, D)]
  /\ UNCHANGED << vaultVars, form, text, config, seedKey, seedSalt, now,
                  result, call, decryption, key, salt >>

\* hybridDecrypt(hybridEncrypt(text, key, salt), key, salt)
HybridRoundTrip ==
  /\ layer.op = "none"
  /\ LET enc == hybridEncrypt(text, key, salt)
         D(c) == hybridDecrypt(c, key, salt)
     IN layer' = [op |-> "hybrid", key2 |-> key, encrypted |-> enc,
                  decrypted |-> Then(enc, D)]
  /\ UNCHANGED << vaultVars, form, text, config, seedKey, seedSalt, now,
                  result, call, decryption, key, salt >>

\* The keys that differ from k in exactly one character.
OneCharChanged(k) ==
  {[k EXCEPT ![i] = c] : i \in 1..Len(k), c \in LayerKeyChars \cup {67, 91}}
    \ {k}

\* hybridDecrypt(hybridEncrypt(text, key, salt), key2, salt) with a key2 that
\* differs from key in one character.
HybridOtherKey ==
  /\ layer.op = "none"
  /\ \E k2 \in OneCharChanged(key) :
       LET enc == hybridEncrypt(text, key, salt)
           D(c) == hybridDecrypt(c, k2, salt)
       IN layer' = [op |-> "hybridOtherKey", key2 |-> k2, encrypted |-> enc,
                    decrypted |-> Then(enc, D)]
  /\ UNCHANGED << vaultVars, form, text, config, seedKey, seedSalt, now,
                  result, call, decryption, key, salt >>

NextLayers == XorRoundTrip \/ AesRoundTrip \/ HybridRoundTrip \/ HybridOtherKey

SpecLayers == InitLayers /\ [][NextLayers]_vars

(***************************************************************************)
(* Keys: generateKey, generateSalt, deriveKey and the shift of caesar       *)
(***************************************************************************)

InitKeys ==
  /\ text = <<>>
  /\ key \in DerivedKeys
  /\ salt \in LayerSalts
  /\ config = NoConfig
  /\ seedKey \in [1..2 -> KeyBytes]
  /\ seedKey # << 0, 0 >> => (key = << 65 >> /\ salt = <<>>)
  /\ seedSalt = <<7, 60>>
  /\ now = 1
  /\ result = NoResult
  /\ call = NoCall
  /\ decryption = NoDecryption
  /\ layer = NoLayer
  /\ form = DefaultForm
  /\ EmptyStore

\* A call on keys has returned.
KeysCalled(called) ==
  /\ layer.op = "none"
  /\ layer' = called
  /\ UNCHANGED << vaultVars, form, text, config, seedKey, seedSalt, now,
                  result, call, decryption, key, salt >>

\* generateKey(length), the random source giving bytes
GenerateKey ==
  \E length \in GeneratedLengths :
    KeysCalled([op |-> "generateKey", length |-> length,
                bytes |-> RandomBytes(seedKey, Max(length, 0)),
                key |-> generateKey(length, seedKey)])

\* generateSalt()
GenerateSalt ==
  KeysCalled([op |-> "generateSalt", length |-> SaltLength,
              bytes |-> RandomBytes(seedKey, SaltLength),
              key |-> generateSalt(seedKey)])

\* deriveKey(key, salt), twice
DeriveKey ==
  KeysCalled([op |-> "deriveKey", derived |-> deriveKey(key, salt),
              again |-> deriveKey(key, salt)])

\* The shift that encrypt and decrypt compute under 'caesar', from a key
\* that generateKey returned or that the caller typed.
CaesarShiftOfKey ==
  \E k \in {generateKey(16, seedKey).v} \cup {c \in CallerKeys : ~IsBlank(c)} :
    KeysCalled([op |-> "caesarShift", key |-> k,
                encrypt |-> CaesarShift(k), decrypt |-> CaesarShift(k)])

NextKeys ==
  \/ GenerateKey
  \/ GenerateSalt
  \/ DeriveKey
  \/ CaesarShiftOfKey

SpecKeys == InitKeys /\ [][NextKeys]_vars

(***************************************************************************)
(* The Caesar layer                                                        *)
(***************************************************************************)

InitCaesar ==
  /\ text \in CaesarTexts
  /\ key = <<>>
  /\ salt = <<>>
  /\ config = NoConfig
  /\ seedKey = <<1, 52>>
  /\ seedSalt = <<7, 60>>
  /\ now = 1
  /\ result = NoResult
  /\ call = NoCall
  /\ decryption = NoDecryption
  /\ layer = NoLayer
  /\ form = DefaultForm
  /\ EmptyStore

\* A call of the Caesar layer has returned.
CaesarCalled(called) ==
  /\ layer.op = "none"
  /\ layer' = called
  /\ UNCHANGED << vaultVars, form, text, config, seedKey, seedSalt, now,
                  result, call, decryption, key, salt >>

\* caesarEncrypt(caesarEncrypt(text, shift), shift2), and
\* caesarEncrypt(text, shift + shift2)
CaesarEncryptTwice ==
  \E shift, shift2 \in 0..MaxShift :
    CaesarCalled([op |-> "encryptTwice", shift |-> shift, shift2 |-> shift2,
                  twice |-> caesarEncrypt(caesarEncrypt(text, shift), shift2),
                  sum |-> caesarEncrypt(text, shift + shift2)])

\* caesarEncrypt(text, shift), the shift positive or negative
CaesarEncrypt ==
  \E shift \in (0 - MaxShift)..MaxShift :
    CaesarCalled([op |-> "encrypt", shift |-> shift,
                  returned |-> caesarEncrypt(text, shift)])

\* caesarDecrypt(text, shift)
CaesarDecrypt ==
  \E shift \in 0..MaxShift :
    CaesarCalled([op |-> "decrypt", shift |-> shift,
                  returned |-> caesarDecrypt(text, shift)])

NextCaesar ==
  \/ CaesarEncryptTwice
  \/ CaesarEncrypt
  \/ CaesarDecrypt

SpecCaesar == InitCaesar /\ [][NextCaesar]_vars

(***************************************************************************)
(* The key vault                                                           *)
(***************************************************************************)

InitVault ==
  /\ text = <<>>
  /\ config = NoConfig
  /\ seedKey = << 1, 52 >>
  /\ seedSalt = << 7, 60 >>
  /\ now = 1
  /\ result = NoResult
  /\ call = NoCall
  /\ decryption = NoDecryption
  /\ key = <<>>
  /\ salt = <<>>
  /\ layer = NoLayer
  /\ form = DefaultForm
  /\ \E store \in InitStores :
       /\ payload = store.payload
       /\ master = store.master
  /\ vault = NoVaultCall
  /\ got = NoGot
  /\ calls = 0
  /\ contexts = NoContexts

\* A call that writes has returned r: the two items and the record of the
\* call.
Written(r, called) ==
  /\ payload' = r.payload
  /\ master' = r.master
  /\ vault' = [called EXCEPT !.ret = r.ret, !.raised = r.threw, !.time = now]
  /\ got' = NoGot
  /\ calls' = calls + 1
  /\ UNCHANGED << cipherVars, now, form, contexts >>

\* The record of a call, all being what getAllKeys() gave before it.
Called(op, k, id, all) ==
  [NoVaultCall EXCEPT !.op = op, !.key = k, !.id = id, !.prior = payload,
                      !.present = id # <<>> /\ FindIndex(all.keys, id) > 0,
                      !.before = all.keys]

\* The record of a call made on host.
CalledOn(host, op, k, id) ==
  [Called(op, k, id, getAllKeys(payload, master, Intact(host)))
     EXCEPT !.host = host]

\* importKeys has returned r.
Reported(r, called) ==
  Written([ret |-> r.success, payload |-> r.payload, master |-> r.master,
           threw |-> r.threw],
          [called EXCEPT !.report = [success |-> r.success,
                                     imported |-> r.imported,
                                     errors |-> r.errors]])

\* KeyStorage.saveKey(k)
SaveKey ==
  /\ vault.op = "none"
  /\ \E k \in SampleKeys, host \in Hosts :
       Written(saveKey(k, payload, master, host, now),
               Called("saveKey", k, k.id, getAllKeys(payload, master, host)))

\* KeyStorage.getKey(id)
GetKey ==
  \E id \in VaultIds, host \in Hosts :
    LET g == getKey(id, payload, master, host)
    IN /\ got' = [NoGot EXCEPT !.state = "returned", !.id = id,
                               !.found = g.found, !.key = g.key,
                               !.raised = g.threw]
       /\ master' = g.master
       /\ UNCHANGED << cipherVars, now, form, payload, vault, calls, contexts >>

\* KeyStorage.deleteKey(id)
DeleteKey ==
  /\ vault.op = "none"
  /\ \E id \in VaultIds, host \in Hosts :
       Written(deleteKey(id, payload, master, host),
               Called("deleteKey", NoKey, id,
                      getAllKeys(payload, master, host)))

\* KeyStorage.updateKeyUsage(id)
UpdateKeyUsage ==
  /\ vault.op = "none"
  /\ \E id \in VaultIds, host \in Hosts :
       Written(updateKeyUsage(id, payload, master, host, now),
               Called("updateKeyUsage", NoKey, id,
                      getAllKeys(payload, master, host)))

\* KeyStorage.clearAllKeys()
ClearAllKeys ==
  /\ vault.op = "none"
  /\ \E host \in Hosts :
       Written(clearAllKeys(payload, master, host),
               Called("clearAllKeys", NoKey, <<>>,
                      getAllKeys(payload, master, host)))

\* Time passes: Date.now() grows.
Tick ==
  /\ now < MaxClock
  /\ now' = now + 1
  /\ UNCHANGED << cipherVars, vaultVars, form >>

NextVault ==
  \/ SaveKey
  \/ GetKey
  \/ DeleteKey
  \/ UpdateKeyUsage
  \/ ClearAllKeys
  \/ Tick

SpecVault == InitVault /\ [][NextVault]_vars

(***************************************************************************)
(* One call on a store that is damaged or fails                            *)
(***************************************************************************)

InitFaulty ==
  /\ text = <<>>
  /\ config = NoConfig
  /\ seedKey = << 1, 52 >>
  /\ seedSalt = << 7, 60 >>
  /\ now = 1
  /\ result = NoResult
  /\ call = NoCall
  /\ decryption = NoDecryption
  /\ key = <<>>
  /\ salt = <<>>
  /\ layer = NoLayer
  /\ form = DefaultForm
  /\ \E store \in FaultyStores :
       /\ payload = store.payload
       /\ master = store.master
  /\ vault = NoVaultCall
  /\ got = NoGot
  /\ calls = 0
  /\ contexts = NoContexts

\* A call that reads has returned r on host.
Read(r, host, returned) ==
  /\ got' = [returned EXCEPT !.host = host, !.raised = r.threw]
  /\ master' = r.master
  /\ UNCHANGED << cipherVars, now, form, payload, vault, calls, contexts >>

NoCallYet == vault.op = "none" /\ got.state = "none"

SaveKeyFaulty ==
  /\ NoCallYet
  /\ \E k \in FaultyKeys, host \in AllHosts :
       Written(saveKey(k, payload, master, host, now),
               CalledOn(host, "saveKey", k, k.id))

DeleteKeyFaulty ==
  /\ NoCallYet
  /\ \E id \in VaultIds, host \in AllHosts :
       Written(deleteKey(id, payload, master, host),
               CalledOn(host, "deleteKey", NoKey, id))

UpdateKeyUsageFaulty ==
  /\ NoCallYet
  /\ \E id \in VaultIds, host \in AllHosts :
       Written(updateKeyUsage(id, payload, master, host, now),
               CalledOn(host, "updateKeyUsage", NoKey, id))

ClearAllKeysFaulty ==
  /\ NoCallYet
  /\ \E host \in AllHosts :
       Written(clearAllKeys(payload, master, host),
               CalledOn(host, "clearAllKeys", NoKey, <<>>))

ImportKeysFaulty ==
  /\ NoCallYet
  /\ \E data \in ImportTexts, host \in AllHosts :
       Reported(importKeys(data, payload, master, host, now,
                           << << 52, 102 >>, << 122 >> >>),
                [CalledOn(host, "importKeys", NoKey, <<>>)
                   EXCEPT !.data = data])

\* KeyStorage.decryptData(encrypted), as getAllKeys calls it
DecryptDataFaulty ==
  /\ NoCallYet
  /\ payload # <<>>
  /\ \E host \in AllHosts :
       LET d == decryptData(payload, master, host)
       IN Read([master |-> d.master, threw |-> FALSE], host,
               [NoGot EXCEPT !.state = "decrypted", !.text = d.v])

GetAllKeysFaulty ==
  /\ NoCallYet
  /\ \E host \in AllHosts :
       LET all == getAllKeys(payload, master, host)
       IN Read(all, host, [NoGot EXCEPT !.state = "keys", !.keys = all.keys])

GetKeyFaulty ==
  /\ NoCallYet
  /\ \E id \in VaultIds, host \in AllHosts :
       LET g == getKey(id, payload, master, host)
       IN Read(g, host,
               [NoGot EXCEPT !.state = "returned", !.id = id,
                             !.found = g.found, !.key = g.key])

ExportKeysFaulty ==
  /\ NoCallYet
  /\ \E host \in AllHosts :
       LET e == exportKeys(payload, master, host)
       IN Read(e, host, [NoGot EXCEPT !.state = "exported", !.text = e.text])

NextFaulty ==
  \/ SaveKeyFaulty
  \/ DeleteKeyFaulty
  \/ UpdateKeyUsageFaulty
  \/ ClearAllKeysFaulty
  \/ ImportKeysFaulty
  \/ DecryptDataFaulty
  \/ GetAllKeysFaulty
  \/ GetKeyFaulty
  \/ ExportKeysFaulty

SpecFaulty == InitFaulty /\ [][NextFaulty]_vars

(***************************************************************************)
(* The vault codec: saveKey, then decryptData and getAllKeys, on hosts     *)
(* that can or cannot generate a master key                                *)
(***************************************************************************)

InitCodec ==
  /\ text = <<>>
  /\ config = NoConfig
  /\ seedKey = << 1, 52 >>
  /\ seedSalt = << 7, 60 >>
  /\ now = 1
  /\ result = NoResult
  /\ call = NoCall
  /\ decryption = NoDecryption
  /\ key = <<>>
  /\ salt = <<>>
  /\ layer = NoLayer
  /\ form = DefaultForm
  /\ EmptyStore

SaveKeyCodec ==
  /\ calls < MaxCalls
  /\ \E k \in CodecKeys, host \in CodecHosts :
       Written(saveKey(k, payload, master, host, now),
               [Called("saveKey", k, k.id, getAllKeys(payload, master, host))
                  EXCEPT !.host = host])

\* KeyStorage.decryptData(encrypted), as getAllKeys calls it
DecryptDataCodec ==
  /\ payload # <<>>
  /\ \E host \in CodecHosts :
       LET d == decryptData(payload, master, host)
       IN Read([master |-> d.master, threw |-> FALSE], host,
               [NoGot EXCEPT !.state = "decrypted", !.text = d.v])

GetAllKeysCodec ==
  \E host \in CodecHosts :
    LET all == getAllKeys(payload, master, host)
    IN Read(all, host, [NoGot EXCEPT !.state = "keys", !.keys = all.keys])

NextCodec ==
  \/ SaveKeyCodec
  \/ DecryptDataCodec
  \/ GetAllKeysCodec

SpecCodec == InitCodec /\ [][NextCodec]_vars

(***************************************************************************)
(* Sequences of calls on a store that starts empty                         *)
(***************************************************************************)

InitSequence ==
  /\ text = <<>>
  /\ config = NoConfig
  /\ seedKey = << 1, 52 >>
  /\ seedSalt = << 7, 60 >>
  /\ now = 1
  /\ result = NoResult
  /\ call = NoCall
  /\ decryption = NoDecryption
  /\ key = <<>>
  /\ salt = <<>>
  /\ layer = NoLayer
  /\ form = DefaultForm
  /\ EmptyStore

ThenSaveKey ==
  /\ calls < MaxCalls
  /\ \E k \in SequenceKeys :
       Written(saveKey(k, payload, master, SequenceHost, now),
               Called("saveKey", k, k.id,
                      getAllKeys(payload, master, SequenceHost)))

ThenDeleteKey ==
  /\ calls < MaxCalls
  /\ \E id \in SequenceIds :
       Written(deleteKey(id, payload, master, SequenceHost),
               Called("deleteKey", NoKey, id,
                      getAllKeys(payload, master, SequenceHost)))

ThenUpdateKeyUsage ==
  /\ calls < MaxCalls
  /\ \E id \in SequenceIds :
       Written(updateKeyUsage(id, payload, master, SequenceHost, now),
               Called("updateKeyUsage", NoKey, id,
                      getAllKeys(payload, master, SequenceHost)))

ThenClearAllKeys ==
  /\ calls < MaxCalls
  /\ Written(clearAllKeys(payload, master, SequenceHost),
             Called("clearAllKeys", NoKey, <<>>,
                    getAllKeys(payload, master, SequenceHost)))

\* importKeys(exportKeys())
ImportData(data, all, suffixes) ==
  Reported(importKeys(data, payload, master, SequenceHost, now, suffixes),
           [Called("importKeys", NoKey, <<>>, all) EXCEPT !.data = data])

ThenImportExported ==
  /\ calls < MaxCalls
  /\ \E suffixes \in SuffixDraws :
       ImportData(exportKeys(payload, master, SequenceHost).text,
                  getAllKeys(payload, master, SequenceHost), suffixes)

\* KeyManager.handleAddKey was called with the list all.keys in `keys` (the
\* list getAllKeys() gave when the component was mounted or refreshed): it
\* sets a message, or saves newKey.
AddedKey(all, message, newKey) ==
  IF message # ""
  THEN Written(Wrote(FALSE, payload, all.master, FALSE),
               [Called("handleAddKey", newKey, newKey.id, all)
                  EXCEPT !.error = message])
  ELSE Written(saveKey(newKey, payload, all.master, SequenceHost, now),
               Called("handleAddKey", newKey, newKey.id, all))

\* KeyManager.handleAddKey: the Add Key button is pressed, with a name typed,
\* the key "k" and the algorithm 'aes' chosen at first.
ThenHandleAddKey ==
  /\ calls < MaxCalls
  /\ \E newKeyName \in NewKeyNames :
       AddedKey(getAllKeys(payload, master, SequenceHost),
                AddKeyError(getAllKeys(payload, master, SequenceHost).keys,
                            newKeyName, << 107 >>),
                NewKey(newKeyName, << 107 >>, << 97, 101, 115 >>,
                       << 52, 102 >>, now))

NextSequence ==
  \/ ThenHandleAddKey
  \/ ThenSaveKey
  \/ ThenDeleteKey
  \/ ThenUpdateKeyUsage
  \/ ThenClearAllKeys
  \/ ThenImportExported

SpecSequence == InitSequence /\ [][NextSequence]_vars

(***************************************************************************)
(* saveKey and deleteKey called from two contexts that share the           *)
(* localStorage. A context runs its call without suspension, but between   *)
(* the getItem of getAllKeys and the setItem of one context the other      *)
(* context can run: a call is two steps, what it reads and what it writes. *)
(***************************************************************************)

InitContexts ==
  /\ text = <<>>
  /\ config = NoConfig
  /\ seedKey = << 1, 52 >>
  /\ seedSalt = << 7, 60 >>
  /\ now = 1
  /\ result = NoResult
  /\ call = NoCall
  /\ decryption = NoDecryption
  /\ key = <<>>
  /\ salt = <<>>
  /\ layer = NoLayer
  /\ form = DefaultForm
  /\ EmptyStore

\* Context c has called op(k) or op(id), and getAllKeys() has returned all.
ContextRead(c, op, k, id, all) ==
  /\ contexts.of[c].pc = "idle"
  /\ contexts.started < MaxCalls
  /\ contexts' =
       [contexts EXCEPT !.of[c] = [NoContext EXCEPT !.pc = "read", !.op = op,
                                                    !.key = k, !.id = id,
                                                    !.keys = all.keys],
                        !.started = @ + 1]
  /\ master' = all.master
  /\ UNCHANGED << cipherVars, now, form, payload, vault, got, calls >>

\* saveKey(k) in context c, up to const keys = this.getAllKeys()
SaveKeyReads(c) ==
  \E k \in ContextKeys :
    ContextRead(c, "saveKey", k, k.id,
                getAllKeys(payload, master, SequenceHost))

\* deleteKey(id) in context c, up to const keys = this.getAllKeys()
DeleteKeyReads(c) ==
  \E id \in ContextIds :
    ContextRead(c, "deleteKey", NoKey, id,
                getAllKeys(payload, master, SequenceHost))

\* The keys that context c holds, as getAllKeys() returned them.
HeldBy(c) ==
  [keys |-> contexts.of[c].keys, master |-> master, threw |-> FALSE]

\* Context c has written and its call has returned r: the other context,
\* if it has read, now holds keys that are stale.
ContextWritten(c, r) ==
  /\ payload' = r.payload
  /\ master' = r.master
  /\ contexts' =
       [contexts EXCEPT
          !.of = [d \in Contexts |->
                    IF d = c
                    THEN [contexts.of[c] EXCEPT !.pc = "idle", !.ret = r.ret,
                                               !.keys = <<>>, !.stale = FALSE]
                    ELSE [contexts.of[d] EXCEPT
                            !.stale = contexts.of[d].pc = "read"]],
          !.latest[contexts.of[c].id] = contexts.of[c].key,
          !.raced = @ \/ contexts.of[c].stale]
  /\ vault' = [NoVaultCall EXCEPT !.op = contexts.of[c].op,
                                  !.key = contexts.of[c].key,
                                  !.id = contexts.of[c].id, !.ret = r.ret,
                                  !.raised = r.threw, !.time = now,
                                  !.prior = payload,
                                  !.before = contexts.of[c].keys]
  /\ got' = NoGot
  /\ calls' = calls + 1
  /\ UNCHANGED << cipherVars, now, form >>

\* The rest of saveKey(k) in context c: the upsert into the keys it holds,
\* encryptData and setItem.
SaveKeyWrites(c) ==
  /\ contexts.of[c].pc = "read"
  /\ contexts.of[c].op = "saveKey"
  /\ ContextWritten(c, Caught(SaveInto(HeldBy(c), contexts.of[c].key, payload,
                                       SequenceHost, now)))

\* The rest of deleteKey(id) in context c: the filter of the keys it holds,
\* encryptData and setItem.
DeleteKeyWrites(c) ==
  /\ contexts.of[c].pc = "read"
  /\ contexts.of[c].op = "deleteKey"
  /\ ContextWritten(c, Caught(DeleteFrom(HeldBy(c), contexts.of[c].id,
                                         payload, SequenceHost)))

NextContexts ==
  \E c \in Contexts :
    \/ SaveKeyReads(c)
    \/ DeleteKeyReads(c)
    \/ SaveKeyWrites(c)
    \/ DeleteKeyWrites(c)

SpecContexts == InitContexts /\ [][NextContexts]_vars

(***************************************************************************)
(* encrypt called directly and through the form                            *)
(***************************************************************************)

\* Either a caller holds a config of its own, or the user has filled in the
\* form.
InitForm ==
  /\ text \in FormTexts
  /\ \/ config \in Configs /\ form = DefaultForm
     \/ config = NoConfig /\ form \in Forms
  /\ seedKey = << 1, 52 >>
  /\ seedSalt = << 7, 60 >>
  /\ now = 1
  /\ result = NoResult
  /\ call = NoCall
  /\ decryption = NoDecryption
  /\ key = <<>>
  /\ salt = <<>>
  /\ layer = NoLayer
  /\ EmptyStore

\* The key of the result was saved under the name typed: saved is what
\* saveKey returned.
KeySaved(storedKey, saved, all) ==
  /\ payload' = saved.payload
  /\ master' = saved.master
  /\ vault' = [Called("saveKey", storedKey, storedKey.id, all)
                 EXCEPT !.ret = saved.ret, !.raised = saved.threw,
                        !.time = now]
  /\ got' = NoGot
  /\ calls' = calls + 1
  /\ UNCHANGED contexts
  /\ form' = IF saved.ret
             THEN [form EXCEPT !.success = "Text encrypted and key saved",
                               !.keyName = <<>>, !.saveKey = FALSE]
             ELSE [form EXCEPT
                     !.success = "Text encrypted, but failed to save key"]

\* encrypt was called with config c and returned or raised r.
Encrypted(c, r, suffix, host) ==
  /\ config' = c
  /\ result' = r
  /\ IF r.state = "raised"
     THEN /\ form' = [form EXCEPT !.error = r.error]
          /\ UNCHANGED vaultVars
     ELSE IF form.saveKey /\ ~IsBlank(form.keyName)
     THEN KeySaved(FormStoredKey(r, form.keyName, suffix, now),
                   saveKey(FormStoredKey(r, form.keyName, suffix, now),
                           payload, master, host, now),
                   getAllKeys(payload, master, host))
     ELSE /\ form' = [form EXCEPT !.success = "Text encrypted successfully!"]
          /\ UNCHANGED vaultVars

\* EncryptionForm.handleEncrypt: the Encrypt button is pressed.
HandleEncrypt ==
  /\ result.state = "none"
  /\ form.error = ""
  /\ IF IsBlank(text)
     THEN /\ form' = [form EXCEPT !.error = "Please enter text to encrypt"]
          /\ UNCHANGED << config, result, vaultVars >>
     ELSE \E suffix \in IdSuffixes, host \in Hosts :
            Encrypted(FormConfig(form),
                      encrypt(text, FormConfig(form), seedKey, seedSalt, now),
                      suffix, host)
  /\ UNCHANGED << text, seedKey, seedSalt, now, call, decryption, key, salt,
                  layer >>

\* handleDecrypt found the stored key (found) and called updateKeyUsage
\* (updated) and decrypt.
DecryptedWithStoredKey(d, found, updated) ==
  /\ payload' = updated.payload
  /\ master' = updated.master
  /\ vault' = [Called("updateKeyUsage", NoKey, d.selectedStoredKey,
                      getAllKeys(payload, master, SequenceHost))
                 EXCEPT !.ret = updated.ret, !.raised = updated.threw,
                        !.time = now]
  /\ got' = [NoGot EXCEPT !.state = "returned", !.id = d.selectedStoredKey,
                          !.found = TRUE, !.key = found.key]
  /\ calls' = calls + 1
  /\ call' = StoredKeyCall(d, found.key)
  /\ decryption' = decrypt(Trim(d.encryptedText), found.key.key,
                           AlgorithmNamed(found.key.algorithm), d.salt)
  /\ form' = [form EXCEPT !.decrypt = DecryptFormAfter(d, decryption')]

\* handleDecrypt with the form as d and what getKey(selectedStoredKey)
\* returned.
DecryptPressed(d, found) ==
  /\ IF DecryptFormError(d, <<>>) # ""
     THEN /\ form' = [form EXCEPT
                        !.decrypt = [d EXCEPT !.error = DecryptFormError(d, <<>>)]]
          /\ UNCHANGED << payload, master, vault, got, calls, call,
                          decryption >>
     ELSE IF ~found.found
     THEN /\ form' = [form EXCEPT
                        !.decrypt = [d EXCEPT !.error = "Selected key not found"]]
          /\ master' = found.master
          /\ UNCHANGED << payload, vault, got, calls, call, decryption >>
     ELSE DecryptedWithStoredKey(d, found,
            updateKeyUsage(d.selectedStoredKey, payload, found.master,
                           SequenceHost, now))
  /\ UNCHANGED << text, config, seedKey, seedSalt, now, result, key, salt,
                  layer, contexts >>

\* DecryptionForm.handleDecrypt: the encrypted text of the result is pasted,
\* the key that handleEncrypt saved is selected, the salt of the result is
\* typed or no salt is, and the Decrypt button is pressed.
HandleDecrypt ==
  /\ result.state = "returned"
  /\ decryption.state = "none"
  /\ form.decrypt = NoDecryptForm
  /\ vault.op = "saveKey"
  /\ vault.ret
  /\ \E typed \in {<<>>, result.salt} :
       DecryptPressed([NoDecryptForm EXCEPT !.encryptedText = result.encrypted,
                                           !.useStoredKey = TRUE,
                                           !.selectedStoredKey = vault.id,
                                           !.salt = typed],
                      getKey(vault.id, payload, master, SequenceHost))

InitStoredKey ==
  /\ text \in SavingTexts
  /\ config = NoConfig
  /\ form \in SavingForms
  /\ seedKey = << 1, 52 >>
  /\ seedSalt = << 7, 60 >>
  /\ now = 1
  /\ result = NoResult
  /\ call = NoCall
  /\ decryption = NoDecryption
  /\ key = <<>>
  /\ salt = <<>>
  /\ layer = NoLayer
  /\ EmptyStore

NextStoredKey == HandleEncrypt \/ HandleDecrypt

SpecStoredKey == InitStoredKey /\ [][NextStoredKey]_vars

\* encrypt(text, config) called with the config of the caller.
EncryptDirect ==
  /\ config # NoConfig
  /\ Encrypt

NextForm == HandleEncrypt \/ EncryptDirect

SpecForm == InitForm /\ [][NextForm]_vars

(***************************************************************************)
(* Properties                                                              *)
(***************************************************************************)

IsByteString(s) == \A i \in 1..Len(s) : s[i] <= 255

\* The last decrypt call was given what encrypt returned.
CallOfResult ==
  /\ result.state = "returned"
  /\ decryption.state = "returned"
  /\ call = [encryptedText |-> result.encrypted, key |-> result.key,
             algorithm |-> result.algorithm, salt |-> result.salt]

\* C1: every text that encrypt accepts under the caesar algorithm is given
\* back by decrypt called with the encrypted text and the key of the result:
\* {decrypted: text, success: true}.
C1_CaesarRoundTrip ==
  (CallOfResult /\ result.algorithm = "caesar")
    => (decryption.success /\ decryption.decrypted = text)

\* C2: hybridDecrypt(hybridEncrypt(T, K, S), K, S) = T for every text T of
\* code units 0..255, every non-empty key K and every salt S (checked here
\* for the keys of code units 0..255).
C2_HybridRoundTrip ==
  (layer.op = "hybrid" /\ IsByteString(key))
    => (layer.decrypted.ok /\ layer.decrypted.v = text)

C4_UnicodeRoundTrip ==
  (/\ result.state # "none"
   /\ ~IsBlank(text)
   /\ ~IsByteString(text)
   /\ config.algorithm \in Algorithms
   /\ config.keyLength = 16)
    => /\ result.state = "returned"
       /\ CallOfResult => (decryption.success /\ decryption.decrypted = text)

\* s is forgiving-base64: without its ASCII white space and its padding, only
\* characters of the base64 alphabet, and not one more than a multiple of 4.
IsForgivingBase64(s) ==
  LET d == StripPadding(StripAsciiWhiteSpace(s))
  IN Len(d) % 4 # 1 /\ \A i \in 1..Len(d) : IsB64Char(d[i])

\* The decoder that c.algorithm selects does not throw on c's arguments.
Decodable(c) ==
  CASE c.algorithm = "caesar" -> TRUE
    [] c.algorithm \in {"aes", "xor"} -> IsForgivingBase64(c.encryptedText)
    [] c.algorithm = "base64" ->
         /\ IsForgivingBase64(c.encryptedText)
         /\ Utf8Decode(Atob(c.encryptedText).v).ok
    [] c.algorithm = "hybrid" ->
         /\ IsForgivingBase64(c.encryptedText)
         /\ \/ c.salt # <<>>
            \/ \A i \in 1..Len(Atob(c.encryptedText).v) :
                 CharCodeAtMod(c.key, i - 1) <= 255
    [] OTHER -> FALSE

\* C5: decrypt never raises and returns a DecryptionResult for every
\* ciphertext, key, algorithm and salt: {decrypted: '', success: false,
\* error: message} when the ciphertext is blank, when the key is blank (under
\* every algorithm, base64 included), when the algorithm is not one of the
\* five, and when the selected decoder throws; success: true otherwise.
C5_DecryptTotal ==
  decryption.state # "none"
    => /\ decryption.state = "returned"
       /\ ~decryption.success
            => (decryption.decrypted = <<>> /\ decryption.error # "")
       /\ decryption.success
            <=> /\ ~IsBlank(call.encryptedText)
                /\ ~IsBlank(call.key)
                /\ call.algorithm \in Algorithms
                /\ Decodable(call)

\* decrypt under base64 with a blank key on base64 text: a failure.
C5_Witness ==
  /\ decryption.state = "returned"
  /\ call.algorithm = "base64"
  /\ call.key = <<32>>
  /\ call.encryptedText = <<65, 65>>
  /\ ~decryption.success
  /\ decryption.error = "Decryption key cannot be empty"

\* C6 as claimed: decrypt of a ciphertext of encrypt with another key or
\* another algorithm than encrypt used returns success: false with an error.
C6_WrongKeyOrAlgorithmFails ==
  (/\ result.state = "returned"
   /\ decryption.state = "returned"
   /\ call.encryptedText = result.encrypted
   /\ call.key # result.key \/ call.algorithm # result.algorithm)
    => (~decryption.success /\ decryption.error # "")

\* C6 as amended: decrypt does not detect a wrong key or a wrong algorithm.
\* On a ciphertext that encrypt produced under aes, xor, base64 or hybrid,
\* decrypt with any non-blank generated key and with aes, xor, hybrid or
\* caesar selected returns success: true; under xor on both sides, with a key
\* that differs from the key of encrypt at a position below the length of
\* the text, the text it returns is not the plaintext.
C6_WrongKeyNotDetected ==
  (/\ result.state = "returned"
   /\ decryption.state = "returned"
   /\ call.encryptedText = result.encrypted
   /\ result.algorithm \in {"aes", "xor", "base64", "hybrid"}
   /\ call.algorithm \in {"aes", "xor", "hybrid", "caesar"}
   /\ ~IsBlank(call.key))
    => /\ decryption.success
       /\ (/\ result.algorithm = "xor"
           /\ call.algorithm = "xor"
           /\ \E i \in 1..Len(text) : call.key[i] # result.key[i])
            => decryption.decrypted # text

\* decrypt under xor of an xor ciphertext with a key that differs in its
\* first character: success with another text.
C6_Witness ==
  /\ result.state = "returned"
  /\ decryption.state = "returned"
  /\ result.algorithm = "xor"
  /\ call.algorithm = "xor"
  /\ call.encryptedText = result.encrypted
  /\ Len(text) = 2
  /\ call.key[1] # result.key[1]
  /\ decryption.success
  /\ decryption.decrypted # text

\* C7: for every text T, key K and salt S (present or absent) and every key
\* K2 that differs from K in exactly one character, hybridDecrypt of
\* hybridEncrypt(T, K, S) with K2 and S does not raise and returns a text
\* different from T (checked here for non-empty T and keys of code units
\* 0..255).
C7_HybridKeySensitive ==
  (/\ layer.op = "hybridOtherKey"
   /\ text # <<>>
   /\ IsByteString(key)
   /\ IsByteString(layer.key2))
    => (layer.decrypted.ok /\ layer.decrypted.v # text)

\* C8: encrypt raises the empty-input error exactly when the text is blank,
\* and every other failure as 'Encryption failed: <cause>' carrying the
\* cause.
C8_EncryptErrorContract ==
  result.state # "none"
    => /\ IsBlank(text)
            <=> (/\ result.state = "raised"
                 /\ result.error = "Text to encrypt cannot be empty")
       /\ (result.state = "raised" /\ ~IsBlank(text))
            => (result.error = "Encryption failed" /\ result.cause # "")

\* The handler of the form has called encrypt, which returned.
Submitted == result.state = "returned" /\ form.success # ""

\* C9 as stated: encrypt clamps the key length: whatever keyLength the config
\* passed to encrypt has, the key of the result has config.keyLength clamped
\* to 16..64 characters.
C9_KeyLengthClampedByEncrypt ==
  result.state = "returned" =>
    Len(result.key) = Max(MinKeyLength, Min(MaxKeyLength, config.keyLength))

\* C9 amended: encrypt does not clamp: the key of the result has exactly
\* config.keyLength characters, 32 when keyLength is 0 or absent; the clamp
\* is in handleEncrypt, so that a key made through the form has the slider's
\* length, between 16 and 64.
C9_KeyLengthAsConfigured ==
  /\ result.state = "returned" =>
       Len(result.key) = IF config.keyLength = 0 THEN DefaultKeyLength
                         ELSE config.keyLength
  /\ Submitted =>
       /\ config.keyLength = form.keyLength
       /\ Len(result.key) >= MinKeyLength
       /\ Len(result.key) <= MaxKeyLength

\* encrypt was called with a keyLength below 16 and returned a key of that
\* length.
C9_Witness ==
  /\ result.state = "returned"
  /\ config.keyLength = 5
  /\ Len(result.key) = 5

\* getKey(k.id) was called after saveKey(k) returned true, nothing written in
\* between.
ReadAfterSave ==
  /\ vault.op = "saveKey"
  /\ vault.ret
  /\ got.state = "returned"
  /\ got.id = vault.id

\* The record read has the id, name, key and algorithm of the record saved.
ReadsWhatWasSaved ==
  /\ got.found
  /\ got.key.id = vault.key.id
  /\ got.key.name = vault.key.name
  /\ got.key.key = vault.key.key
  /\ got.key.algorithm = vault.key.algorithm

\* C10 as stated: after saveKey(k) returns true, getKey(k.id) returns a record
\* with the id, name, key and algorithm of k and with `used` equal to the time
\* of that save, on insertion (with or without a `used` of k) and on upsert.
C10_ReadYourWriteUsedIsSaveTime ==
  ReadAfterSave => (ReadsWhatWasSaved /\ got.key.used = vault.time)

\* C10 amended: after saveKey(k) returns true, getKey(k.id) returns a record
\* with the id, name, key and algorithm of k; its `used` is the time of the
\* save on upsert and on insertion of a k without `used`, and the `used` of k
\* on insertion of a k that carries one.
C10_ReadYourWrite ==
  ReadAfterSave =>
    /\ ReadsWhatWasSaved
    /\ got.key.used = IF vault.present \/ vault.key.used = 0
                      THEN vault.time
                      ELSE vault.key.used

\* A record with its own `used` was inserted and read back with that value,
\* which is not the time of the save.
C10_Witness ==
  /\ ReadAfterSave
  /\ ~vault.present
  /\ vault.key.used = 7
  /\ got.found
  /\ got.key.used = 7
  /\ vault.time # 7

\* A record was saved over a stored one at a later time and read back.
C10_WitnessUpsert ==
  /\ ReadAfterSave
  /\ vault.present
  /\ vault.time = 2
  /\ got.found
  /\ got.key.name = << 109 >>
  /\ got.key.used = 2

\* The records getAllKeys() returns in the present state, from a store that
\* works.
StoredKeys == getAllKeys(payload, master, SequenceHost).keys

UniqueIds(keys) ==
  \A i, j \in 1..Len(keys) : keys[i].id = keys[j].id => i = j

\* saveKey(k) returned true for an id that was stored.
Upserted == vault.op = "saveKey" /\ vault.ret /\ vault.present

IdsUniqueIn(keys) ==
  /\ UniqueIds(keys)
  /\ Upserted =>
       /\ Len(keys) = Len(vault.before)
       /\ \E i \in 1..Len(keys) :
            keys[i] = [vault.key EXCEPT !.used = vault.time]

\* C11: after any sequence of saveKey, deleteKey, updateKeyUsage, importKeys
\* and clearAllKeys from an empty store, no two records getAllKeys returns
\* have the same id; and a saveKey with a stored id puts its record in the
\* place of the stored one and leaves the number of records as it was.
C11_IdsUnique == IdsUniqueIn(StoredKeys)

\* A record was replaced in a store of two records.
C11_Witness == Upserted /\ Len(vault.before) = 2 /\ calls = MaxCalls

\* The records of a list, as a set.
Records(keys) == {keys[i] : i \in 1..Len(keys)}

\* deleteKey(id) was called with a non-empty id.
Deleted == vault.op = "deleteKey" /\ vault.id # <<>>

RemovedOneIdFrom(keys) ==
  Deleted =>
    /\ vault.ret
    /\ \A k \in Records(keys) : k.id # vault.id
    /\ Records(keys) = {k \in Records(vault.before) : k.id # vault.id}
    /\ Len(keys) = Cardinality(Records(keys))
    /\ ~vault.present => keys = vault.before

\* C12: deleteKey(id) with a non-empty id returns true, whether id was stored
\* or not; afterwards no record has that id and every other record stored
\* before is stored with all its fields as they were; when id was not stored
\* the stored records are the same as before.
C12_DeleteRemovesOneId == RemovedOneIdFrom(StoredKeys)

\* A stored id was deleted from a store of two records.
C12_Witness ==
  Deleted /\ vault.ret /\ vault.present /\ Len(vault.before) = 2
    /\ Len(StoredKeys) = 1

\* An id that was not stored was deleted from a store that held a record.
C12_WitnessAbsent ==
  Deleted /\ vault.ret /\ ~vault.present /\ Len(vault.before) = 1

\* A string: a sequence of 16-bit code units.
IsString(s) == \A i \in 1..Len(s) : s[i] \in 0..65535

\* decryptData(payload) returned got.text, decoded being atob(payload): "[]"
\* for a payload that is not base64, the decoded text when no master key
\* can be had, and else the text that encrypts to the decoded one.
DecryptedFrom(decoded) ==
  /\ ~got.raised
  /\ IsString(got.text)
  /\ ~decoded.ok => got.text = << 91, 93 >>
  /\ (decoded.ok /\ getMasterKeyThrows(master, got.host)) =>
       got.text = decoded.v
  /\ (decoded.ok /\ ~getMasterKeyThrows(master, got.host)) =>
       /\ master # <<>>
       /\ XorStream(got.text, master) = decoded.v

\* The element of a parsed array that the record k was read from.
IsEntryOf(k, element) ==
  /\ element.type = "object"
  /\ \A name \in {PropId, PropName, PropKey, PropAlgorithm} :
       Property(element, name).type = "string"
  /\ Property(element, PropId).str = k.id
  /\ Property(element, PropName).str = k.name
  /\ Property(element, PropKey).str = k.key
  /\ Property(element, PropAlgorithm).str = k.algorithm

\* getAllKeys() returned got.keys, parsed being JSON.parse of the decrypted
\* payload.
KeysFrom(parsed) ==
  /\ ~got.raised
  /\ (~parsed.ok \/ parsed.v.type # "array") => got.keys = <<>>
  /\ (parsed.ok /\ parsed.v.type = "array") =>
       /\ Len(got.keys) <= Len(parsed.v.items)
       /\ \A i \in 1..Len(got.keys) :
            \E j \in 1..Len(parsed.v.items) :
              IsEntryOf(got.keys[i], parsed.v.items[j])

\* C13: whatever string the payload holds, decryptData returns a string
\* without raising (the inverse transform, else the plain base64 decoding,
\* else "[]"), and getAllKeys returns a list without raising: the empty list
\* when the payload does not decode to a JSON array, and else only entries
\* whose id, name, key and algorithm are strings.
C13_DamagedPayloadIsRead ==
  /\ got.state = "decrypted" => DecryptedFrom(Atob(payload))
  /\ (got.state = "keys" /\ payload # <<>> /\ got.host.storage # "denied") =>
       KeysFrom(JsonParse(decryptData(payload, master, got.host).v))
  /\ (got.state = "keys" /\ (payload = <<>> \/ got.host.storage = "denied"))
       => (got.keys = <<>> /\ ~got.raised)

\* getAllKeys() returned a record from a damaged payload that holds other
\* entries too.
C13_Witness ==
  got.state = "keys" /\ payload \in DamagedPayloads /\ Len(got.keys) = 1

\* getAllKeys() returned the empty list for a payload that is not base64.
C13_WitnessNotBase64 ==
  got.state = "keys" /\ payload = << 33, 33 >> /\ got.keys = <<>>
    /\ got.host.storage = "works"

\* decryptData fell back to the plain base64 decoding.
C13_WitnessPlainBase64 ==
  got.state = "decrypted" /\ got.text = MixedText

\* A key without id, name, key or algorithm.
Incomplete(k) ==
  k.id = <<>> \/ k.name = <<>> \/ k.key = <<>> \/ k.algorithm = <<>>

\* A call that writes signalled failure and left the payload as it was.
FailedWithoutWriting ==
  /\ ~vault.ret
  /\ ~vault.report.success
  /\ vault.report.imported = 0
  /\ payload = vault.prior

\* A call that reads signalled failure.
FailedToRead ==
  /\ ~got.found
  /\ got.keys = <<>>
  /\ got.state = "exported" => got.text = << 91, 93 >>

\* C14: saveKey, getAllKeys, getKey, deleteKey, updateKeyUsage, clearAllKeys,
\* exportKeys and importKeys never raise, whatever the argument and the store
\* (one whose localStorage throws included); on a localStorage that throws
\* they return false, nothing, the empty list, "[]" or success: false; a
\* saveKey, deleteKey, updateKeyUsage or clearAllKeys that returns false
\* leaves the payload as it was; and saveKey with a key without id, name,
\* key or algorithm returns false and leaves the payload as it was.
C14_OperationsAreTotal ==
  /\ ~vault.raised
  /\ ~got.raised
  /\ (vault.op \notin {"none", "importKeys"} /\ ~vault.ret)
       => payload = vault.prior
  /\ (vault.op = "saveKey" /\ Incomplete(vault.key)) => FailedWithoutWriting
  /\ (vault.op # "none" /\ vault.host.storage = "denied")
       => FailedWithoutWriting
  /\ (vault.op \notin {"none", "clearAllKeys"}
        /\ vault.host.storage = "full") => FailedWithoutWriting
  /\ (got.state \in {"keys", "returned", "exported"}
        /\ got.host.storage = "denied") => FailedToRead

\* saveKey refused a key without a name on a store that holds records.
C14_Witness ==
  /\ vault.op = "saveKey"
  /\ vault.key.name = <<>>
  /\ vault.key.id # <<>>
  /\ ~vault.ret
  /\ vault.before # <<>>
  /\ vault.host.storage = "works"

\* saveKey returned false because localStorage.setItem threw.
C14_WitnessFull ==
  /\ vault.op = "saveKey"
  /\ ~Incomplete(vault.key)
  /\ ~vault.ret
  /\ vault.host.storage = "full"
  /\ vault.key.name = << 110 >>

\* importKeys(data) was called with the text of an array, on a store that
\* works and is not damaged.
ImportedArray(parsed) ==
  /\ vault.op = "importKeys"
  /\ vault.host.storage = "works"
  /\ vault.prior \notin DamagedPayloads
  /\ parsed.ok
  /\ parsed.v.type = "array"

\* The elements of an array that pass validateKeyStructure.
ValidElements(items) ==
  {i \in 1..Len(items) : validateKeyStructure(items[i])}

\* The result counts every element of the array once, as imported or as an
\* error, and the vault has grown by the number imported.
CountsEveryElement(parsed, keys) ==
  ImportedArray(parsed) =>
    /\ vault.report.imported + Len(vault.report.errors) = Len(parsed.v.items)
    /\ vault.report.success = (vault.report.imported > 0)
    /\ Len(keys) = Len(vault.before) + vault.report.imported
    /\ vault.report.imported <= Cardinality(ValidElements(parsed.v.items))

\* C15 as stated: importKeys on an array of n elements returns imported, the
\* number of elements validated and saved and of records added to the vault,
\* and one message for each other element, so that imported + |errors| = n,
\* with success = (imported > 0); a bad element of any shape, null included,
\* stops neither the later elements nor the count of the earlier ones.
C15_ImportCountsEveryElement ==
  CountsEveryElement(JsonParse(vault.data), StoredKeys)

\* The same for two valid elements and one invalid: {success: true,
\* imported: 2, errors: [one message]}.
C15_TwoValidOneInvalid ==
  (ImportedArray(JsonParse(vault.data))
     /\ vault.data \in {ArrayText(<< ValidA, bad, ValidM >>) :
                          bad \in {MissingKey, OtherAlgorithmKey, NumberText,
                                   NullText}})
    => /\ vault.report.success
       /\ vault.report.imported = 2
       /\ Len(vault.report.errors) = 1

\* importKeys left every record that was stored as it was and added one
\* record for each element it counts as imported.
OnlyAdded(keys) ==
  vault.op = "importKeys" =>
    /\ Records(vault.before) \subseteq Records(keys)
    /\ Len(keys) = Len(vault.before) + vault.report.imported

\* C16 as stated: every record importKeys adds is stored under a new id, one
\* that no stored record and no other element of the batch has; so an import
\* replaces or changes no record that was stored, and the vault grows by
\* exactly result.imported records.
C16_ImportNeverReusesId == OnlyAdded(StoredKeys)

\* Every call before the last one was a saveKey that returned true and added
\* a record: each of them added one record under an id given to saveKey.
OnlySaved ==
  /\ vault.before # <<>>
  /\ Len(vault.before) = calls - 1
  /\ \A k \in Records(vault.before) : k.id \in SequenceIds

\* The record copy is the record original under another id.
IsCopyOf(copy, original) ==
  /\ copy.name = original.name
  /\ copy.key = original.key
  /\ copy.algorithm = original.algorithm
  /\ copy.id # original.id

\* importKeys(exportKeys()) imported every record and added a copy of each.
ReAdded(keys) ==
  (vault.op = "importKeys" /\ OnlySaved) =>
    /\ vault.report.success
    /\ vault.report.imported = Len(vault.before)
    /\ vault.report.errors = <<>>
    /\ Len(keys) = 2 * Len(vault.before)
    /\ \A i \in 1..Len(vault.before) :
         /\ keys[i] = vault.before[i]
         /\ IsCopyOf(keys[Len(vault.before) + i], vault.before[i])
         /\ keys[Len(vault.before) + i].id
              \notin {k.id : k \in Records(vault.before)}

\* C17 as stated: on a vault that is not empty and was filled by saveKey
\* calls that returned true, importKeys(exportKeys()) returns success: true,
\* imported = the number of stored records and no errors, and the vault then
\* holds, for each record, one more record with its name, key and algorithm
\* under a new id.
C17_ExportImportRoundTrip == ReAdded(StoredKeys)

\* A record with a name and a key that are not blank and an algorithm of
\* the closed set.
IsValidRecord(k) ==
  /\ Trim(k.name) # <<>>
  /\ Trim(k.key) # <<>>
  /\ k.algorithm \in ImportAlgorithms

AllValid(keys) == \A k \in Records(keys) : IsValidRecord(k)

\* C18 as stated: after any sequence of calls every stored record has a name
\* and a key that are not blank and an algorithm in {aes, caesar, xor,
\* base64, hybrid}, saveKey and importKeys refusing any other record.
C18_StoredRecordsAreValid == AllValid(StoredKeys)

NamesUnique(keys) ==
  \A i, j \in 1..Len(keys) :
    ToLowerCase(keys[i].name) = ToLowerCase(keys[j].name) => i = j

\* C19 as stated: after any sequence of additions (the add form of
\* KeyManager, EncryptionForm saving its key, saveKey, importKeys) no two
\* stored records have names that are equal without regard to case.
C19_NamesUnique == NamesUnique(StoredKeys)

\* getKey(id) has returned a record created when k was.
SameCreated(k, returned) ==
  returned.found => returned.key.created = k.created

CreatedKeptFrom(keys) ==
  \A k \in Records(keys) :
    SameCreated(k, getKey(k.id, payload, master, SequenceHost))

\* C20 as stated: created is written once. Whatever call other than
\* deleteKey and clearAllKeys was made last (a saveKey with the same id,
\* whatever created its argument carries or omits, an updateKeyUsage, a call
\* on another id), getKey(id) returns for every id stored before the call
\* the created the record had before the call.
C20_CreatedIsWriteOnce ==
  vault.op \notin {"deleteKey", "clearAllKeys"} =>
    CreatedKeptFrom(vault.before)

\* The list that the saveKey recorded in vault serialised.
SavedList ==
  UpsertAt(vault.before, vault.key, FindIndex(vault.before, vault.id),
           vault.time)

SavedLast == vault.op = "saveKey" /\ vault.ret

\* C21 as stated: on a store that works, saveKey returns true for every key
\* with id, name, key and algorithm (encryptData does not raise, characters
\* above code 255 included, whether it used the master key or fell back to
\* plain base64); decryptData then returns the text that was serialised
\* and getAllKeys the records that were saved, whether or not a master
\* key can be had when reading.
C21_CodecStaysUsable ==
  /\ (vault.op = "saveKey" /\ ~Incomplete(vault.key)) => vault.ret
  /\ (SavedLast /\ got.state = "decrypted") =>
       got.text = JsonStringify(SavedList)
  /\ (SavedLast /\ got.state = "keys") => got.keys = SavedList

\* A step keeps the master key that is persisted, and persists none that
\* is not of 32 characters.
MasterKeyKept ==
  /\ master # <<>> => master' = master
  /\ (master = <<>> /\ master' # <<>>) => Len(master') = MasterKeyLength

\* The payload that the last saveKey wrote decodes, with the master key that
\* is persisted, to the records that were saved.
DecodableWithMaster ==
  (SavedLast /\ master # <<>>) => StoredKeys = SavedList

\* C22 as stated: getMasterKey persists a key of 32 characters when none
\* is persisted; once one is persisted no call (saveKey, deleteKey,
\* importKeys, clearAllKeys, getAllKeys) overwrites or removes it, and the
\* payload that was written stays decodable with it.
C22_MasterKeyIsKept == [][MasterKeyKept]_vars /\ []DecodableWithMaster

C22_MasterKeyKept == [][MasterKeyKept]_vars

\* C23: for every text and all shifts s1, s2 in 0..25,
\* caesarEncrypt(caesarEncrypt(T, s1), s2) = caesarEncrypt(T, s1 + s2):
\* upper case and lower case letters modulo 26, digits modulo 10.
C23_CaesarShiftClosed ==
  layer.op = "encryptTwice" => layer.twice = layer.sum

\* "Zz9!" was rotated by 13 and then by 14: every class wrapped, and the
\* letters are back where they were.
C23_Witness ==
  /\ layer.op = "encryptTwice"
  /\ text = << 90, 122, 57, 33 >>
  /\ layer.shift = 13
  /\ layer.shift2 = 14
  /\ layer.twice = << 65, 97, 54, 33 >>

\* decrypt and the generated script were both run on the result of encrypt.
BothRun == CallOfResult /\ layer.op = "script"

\* C24 as stated: for every result of encrypt, whatever the algorithm, the
\* script of generateDecryptionCode yields the text that decrypt returns
\* for the encrypted text, key, algorithm and salt of the result (its
\* caesarDecrypt agreeing with the library's for every shift derived).
C24_GeneratedCodeDecryptsAsDecrypt ==
  BothRun =>
    /\ layer.decrypted.ok = decryption.success
    /\ decryption.success => layer.decrypted.v = decryption.decrypted

\* generateKey or generateSalt was called.
Generated == layer.op \in {"generateKey", "generateSalt"}

IsAlphabetOf(alphabet, size) ==
  Len(alphabet) = size /\ Cardinality(Records(alphabet)) = size

\* The key returned has length characters, character i being symbol
\* (byte i) % size of the alphabet.
DrawnFrom(alphabet, size) ==
  /\ layer.key.ok
  /\ Len(layer.key.v) = layer.length
  /\ \A i \in 1..layer.length :
       /\ (layer.bytes[i] % size) + 1 \in DOMAIN alphabet
       /\ layer.key.v[i] = alphabet[(layer.bytes[i] % size) + 1]

KeyUnit(i) == key[(i % Len(key)) + 1]

SaltUnit(i) == salt[(i % Len(salt)) + 1]

\* deriveKey returned the key for no salt, and else max(len(key), 32)
\* characters, character i being Mixed(i).
DerivedAs(Mixed(_)) ==
  /\ layer.again = layer.derived
  /\ salt = <<>> => layer.derived = key
  /\ salt # <<>> =>
       /\ Len(layer.derived) = Max(Len(key), 32)
       /\ \A i \in 0..(Len(layer.derived) - 1) :
            layer.derived[i + 1] = Mixed(i)

MixedWhole(i) == Xor(Xor(KeyUnit(i), SaltUnit(i)), i % 256)

MixedBytes(i) == Xor(Xor(KeyUnit(i) % 256, SaltUnit(i) % 256), i % 256)

\* C26 as stated: character i of deriveKey(key, salt) is
\* key[i mod len(key)] XOR salt[i mod len(salt)] XOR (i mod 256), for every
\* key and salt that are not empty.
C26_DeriveKeyMixesCodeUnits ==
  layer.op = "deriveKey" => DerivedAs(MixedWhole)

\* C26, corrected: character i is that value modulo 256, the XOR of the low
\* bytes of the two code units and of i.
C26_DeriveKeyMixesBytes ==
  layer.op = "deriveKey" => DerivedAs(MixedBytes)

\* deriveKey was given a key and a salt with code units above 255: the
\* first character mixes 300 and 115 into 95.
C26_Witness ==
  /\ layer.op = "deriveKey"
  /\ key = << 300, 65 >>
  /\ salt = << 115, 8364 >>
  /\ Len(layer.derived) = 32
  /\ layer.derived[1] = 95

\* deriveKey was given a key of more than 32 characters.
C26_WitnessLongKey ==
  layer.op = "deriveKey" /\ salt # <<>> /\ Len(layer.derived) = 33

\* C27 as stated: for every key that is not blank, encrypt and decrypt
\* derive the same shift, an integer in 1..25, keys that start with
\* punctuation, '+' or '-' included.
C27_CaesarShiftInRange ==
  layer.op = "caesarShift" =>
    (layer.encrypt = layer.decrypt /\ layer.encrypt \in 1..25)

\* The class of a character: upper case letter, lower case letter, digit or
\* other.
ClassOf(code) ==
  IF code >= 65 /\ code <= 90 THEN "upper"
  ELSE IF code >= 97 /\ code <= 122 THEN "lower"
  ELSE IF code >= 48 /\ code <= 57 THEN "digit"
  ELSE "other"

\* Every character of to is of the class of the character of from at its
\* place, and is that character when the class is other.
RotatedWithinClass(from, to) ==
  /\ Len(to) = Len(from)
  /\ \A i \in 1..Len(from) :
       /\ ClassOf(to[i]) = ClassOf(from[i])
       /\ ClassOf(from[i]) = "other" => to[i] = from[i]

\* C28 as stated: for every text and every shift, positive or negative
\* (caesarDecrypt passes -shift), caesarEncrypt returns a text of the same
\* length with every letter and digit rotated within its class and every
\* other character unchanged.
C28_CaesarStaysInClass ==
  layer.op \in {"encrypt", "decrypt"} =>
    RotatedWithinClass(text, layer.returned)

\* getKey(id) returns the record that the calls written so far leave under
\* id, or none.
LatestIs(latest, returned) ==
  IF latest = NoKey THEN ~returned.found
  ELSE /\ returned.found
       /\ returned.key.name = latest.name
       /\ returned.key.key = latest.key
       /\ returned.key.algorithm = latest.algorithm

\* No update is lost: every id holds what the last call written for it
\* left, and nothing else is stored.
NoUpdateLost ==
  /\ \A id \in SequenceIds :
       LatestIs(contexts.latest[id], getKey(id, payload, master, SequenceHost))
  /\ Len(StoredKeys)
       = Cardinality({id \in SequenceIds : contexts.latest[id] # NoKey})

\* C29: as long as no call writes what it computed from keys that another
\* context has replaced since it read them - as in every run of a single
\* context - no sequence of saveKey and deleteKey calls loses an update.
C29_NoLossWithoutInterleaving == ~contexts.raced => NoUpdateLost

\* Context c has saved the key with id, and nothing else.
SavedOnly(c, id) ==
  /\ contexts.of[c].pc = "idle"
  /\ contexts.of[c].op = "saveKey"
  /\ contexts.of[c].id = id
  /\ contexts.of[c].ret

\* Two contexts have interleaved saveKey("a") and saveKey("b") on an empty
\* store (read, read, write, write): both returned true and one record is
\* stored.
C29_Witness ==
  /\ contexts.raced
  /\ contexts.started = 2
  /\ calls = 2
  /\ SavedOnly(1, << 97 >>)
  /\ SavedOnly(2, << 98 >>)
  /\ Len(StoredKeys) = 1

\* handleDecrypt has decrypted with the key that handleEncrypt saved.
DecryptedWithSavedKey ==
  /\ decryption.state = "returned"
  /\ form.decrypt.useStoredKey
  /\ call.key = result.key

\* C30 as stated: whatever the algorithm and the config, the text encrypted
\* with 'save key' enabled is given back, with success: true, by decrypting
\* result.encrypted with the stored key selected, a salt being passed only
\* if the user typed one.
C30_StoredKeyDecrypts ==
  DecryptedWithSavedKey =>
    (decryption.success /\ decryption.decrypted = text)

====
